---------------------------- MODULE Spec2Model ----------------------------
(***************************************************************************)
(* State-machine model of the JSP-to-JSON normalisation service:           *)
(*   - the six tree passes of jsp-to-json/index.js, as operators on JSON   *)
(*     values;                                                             *)
(*   - generateAndValidateJson, the parse-validate-regenerate loop;        *)
(*   - runWithConcurrencyLimit / handleToolCalls of utils/common.js (the   *)
(*     listing of that file is kept in src/README.md).                     *)
(* Spec runs the loop, ExecSpec the executor, PassSpec the passes on      *)
(* their own, alone and in the order of the loop, on bounded lists,        *)
(* WalkSpec the walk of Nesting Repair step by step, DeleteSpec the        *)
(* executor with the delete route answering while it awaits.               *)
(*                                                                         *)
(* JSON values.  A JS array is a sequence.  Every other value is a record  *)
(* with a field kind: "null" for JS null, "node" for a JS object.  The     *)
(* fields of a node are optional, as in JS: tagName, attributes, children, *)
(* condition, isComponent, params.  attributes is a function from          *)
(* attribute names to strings, except attributes.style, which is           *)
(* [css |-> s] for a string and [obj |-> f] for a style map f.             *)
(***************************************************************************)
EXTENDS Integers, Sequences, FiniteSets, TLC

VARIABLES
    \* generateAndValidateJson
    pc,             \* position of the loop
    attempt,        \* the loop counter
    currentContent, \* the candidate text under validation
    history,        \* sessions[sessionId]
    outcome,        \* what the call returned or raised
    passLog,        \* the passes called so far, with the attempt that called them
    parseLog,       \* the candidates handed to JSON.parse, in order
    requests,       \* the regeneration requests sent to the generator
    \* handleToolCalls / runWithConcurrencyLimit
    toolCalls,      \* the batch handed to handleToolCalls
    epc,            \* position of handleToolCalls and of the executor's for loop
    nextTask,       \* index of the task the for loop takes next
    task,           \* per tool call: the position of its task function
    results,        \* the array results: the promises in the order pushed
    executing,      \* the Set executing
    raced,          \* the promises handed to the pending Promise.race
    toolLog,        \* the records the tasks pushed to sessions[sessionId]
    execResult,     \* what handleToolCalls resolved with
    callCount,      \* per tool call: the calls its task made so far
    sessionExists,  \* whether sessions[sessionId] is defined
    chat,           \* position of /chat around its call of handleToolCalls
    \* the passes on their own
    source,         \* the list of nodes the passes started from
    tree,           \* the list as the passes applied so far left it
    before,         \* the list as it was before the last pass applied
    done,           \* the passes applied so far, in order
    \* traverseAndFixInvalidNesting step by step
    heap,           \* the nodes, each with its tagName and its children array
    rootElements,   \* the array rootRef.elements
    frames,         \* the forEach calls in progress, the innermost last
    evaluated       \* the nodes the rules ran on, in order

loopVars == <<pc, attempt, currentContent, history, outcome, passLog, parseLog, requests>>
sessionVars == <<sessionExists, chat>>
execVars == <<toolCalls, epc, nextTask, task, results, executing, raced, toolLog,
              execResult, callCount, sessionVars>>
passVars == <<source, tree, before, done>>
walkVars == <<heap, rootElements, frames, evaluated>>
vars == <<loopVars, execVars, passVars, walkVars>>

-----------------------------------------------------------------------------
(* JS values and strings *)

JNull == [kind |-> "null"]

EmptyObject == <<>>

IsObject(v) == v.kind = "node"

Has(node, field) == field \in DOMAIN node

TagIs(node, tag) == IsObject(node) /\ Has(node, "tagName") /\ node.tagName = tag

\* obj[key] = value
Put(obj, key, value) == [k \in DOMAIN obj \cup {key} |-> IF k = key THEN value ELSE obj[k]]

\* delete obj[key]
Delete(obj, key) == [k \in DOMAIN obj \ {key} |-> obj[k]]

CharAt(s, i) == SubSeq(s, i, i)

Digits == {"0", "1", "2", "3", "4", "5", "6", "7", "8", "9"}

Whitespace == {" "}

RECURSIVE TrimStart(_)
TrimStart(s) ==
    IF Len(s) > 0 /\ CharAt(s, 1) \in Whitespace THEN TrimStart(Tail(s)) ELSE s

RECURSIVE TrimEnd(_)
TrimEnd(s) ==
    IF Len(s) > 0 /\ CharAt(s, Len(s)) \in Whitespace
    THEN TrimEnd(SubSeq(s, 1, Len(s) - 1))
    ELSE s

\* String.prototype.trim
Trim(s) == TrimEnd(TrimStart(s))

\* s.startsWith(prefix) at position i
StartsWithAt(s, i, prefix) ==
    i + Len(prefix) - 1 <= Len(s) /\ SubSeq(s, i, i + Len(prefix) - 1) = prefix

\* The least position >= i where sub occurs in s, 0 when there is none.
RECURSIVE IndexOfFrom(_, _, _)
IndexOfFrom(s, sub, i) ==
    IF i + Len(sub) - 1 > Len(s) THEN 0
    ELSE IF StartsWithAt(s, i, sub) THEN i
    ELSE IndexOfFrom(s, sub, i + 1)

\* s.includes(sub)
Includes(s, sub) == IndexOfFrom(s, sub, 1) # 0

\* s.split(sep) for a one-character separator
RECURSIVE Split(_, _)
Split(s, sep) ==
    LET i == IndexOfFrom(s, sep, 1)
    IN  IF i = 0 THEN <<s>>
        ELSE <<SubSeq(s, 1, i - 1)>> \o Split(SubSeq(s, i + 1, Len(s)), sep)

LowerCase == <<"a", "b", "c", "d", "e", "f", "g", "h", "i", "j", "k", "l", "m",
               "n", "o", "p", "q", "r", "s", "t", "u", "v", "w", "x", "y", "z">>

UpperCase == <<"A", "B", "C", "D", "E", "F", "G", "H", "I", "J", "K", "L", "M",
               "N", "O", "P", "Q", "R", "S", "T", "U", "V", "W", "X", "Y", "Z">>

Range(f) == {f[i] : i \in DOMAIN f}

\* The regular expression class \w
WordChars == Range(LowerCase) \cup Range(UpperCase) \cup Digits \cup {"_"}

\* letter.toUpperCase() for one character
ToUpperCase(c) ==
    IF c \in Range(LowerCase)
    THEN UpperCase[CHOOSE i \in DOMAIN LowerCase : LowerCase[i] = c]
    ELSE c

-----------------------------------------------------------------------------
(* Pass 1: Attribute Lowering *)

\* property.trim().replace(/-(\w)/g, (_, letter) => letter.toUpperCase())
RECURSIVE CamelCase(_)
CamelCase(s) ==
    IF Len(s) = 0 THEN s
    ELSE IF Len(s) >= 2 /\ CharAt(s, 1) = "-" /\ CharAt(s, 2) \in WordChars
    THEN ToUpperCase(CharAt(s, 2)) \o CamelCase(SubSeq(s, 3, Len(s)))
    ELSE CharAt(s, 1) \o CamelCase(Tail(s))

\* The forEach of parseCssStringToObject over the declarations, in order.
RECURSIVE ParseDeclarations(_, _)
ParseDeclarations(declarations, style) ==
    IF declarations = <<>> THEN style
    ELSE LET declaration == Head(declarations)
             parts == Split(declaration, ":")
             property == parts[1]
             value == IF Len(parts) >= 2 THEN parts[2] ELSE ""
             next == IF Trim(declaration) # "" /\ property # "" /\ value # ""
                     THEN Put(style, CamelCase(Trim(property)), Trim(value))
                     ELSE style
         IN  ParseDeclarations(Tail(declarations), next)

parseCssStringToObject(cssText) ==
    IF cssText = "" THEN EmptyObject
    ELSE ParseDeclarations(Split(cssText, ";"), EmptyObject)

addPxIfNeeded(value) ==
    IF Len(value) > 0 /\ \A i \in 1..Len(value) : CharAt(value, i) \in Digits
    THEN value \o "px"
    ELSE value

\* The keys of attributeToStyleMap.
LegacyAttributes ==
    {"align", "valign", "bgcolor", "background", "width", "height", "border",
     "nowrap", "cellspacing", "color", "face", "size"}

\* The handlers of attributeToStyleMap that return the style value (lines
\* 111-116 and 128): what the handler of attrName returns for attrValue.
HandlerValue(attrName, attrValue) ==
    CASE attrName = "background" -> "url(" \o attrValue \o ")"
      [] attrName \in {"width", "height", "size"} -> addPxIfNeeded(attrValue)
      [] attrName = "border" ->
            IF attrValue = "0" THEN "none"
            ELSE addPxIfNeeded(attrValue) \o " solid black"

\* One round of the for-in loop (lines 159-176): the entry of
\* attributeToStyleMap for attrName applied to attrValue.  An entry without a
\* handler writes its cssProperty.  An entry with a handler is called as
\* mapping.handler(attrValue, styleObject) and what it returns is dropped
\* (line 167): only the handler of cellspacing writes into styleObject itself.
attributeToStyleMap(attrName, attrValue, styleObject) ==
    CASE attrName = "align" -> Put(styleObject, "textAlign", attrValue)
      [] attrName = "valign" -> Put(styleObject, "verticalAlign", attrValue)
      [] attrName = "bgcolor" -> Put(styleObject, "backgroundColor", attrValue)
      [] attrName \in {"background", "width", "height", "border", "size"} -> styleObject
      [] attrName = "nowrap" -> Put(styleObject, "whiteSpace", "nowrap")
      [] attrName = "cellspacing" ->
            Put(Put(styleObject, "borderSpacing", addPxIfNeeded(attrValue)),
                "borderCollapse", "separate")
      [] attrName = "color" -> Put(styleObject, "color", attrValue)
      [] attrName = "face" -> Put(styleObject, "fontFamily", attrValue)

\* The style a node starts from: attributes.style parsed (a string) or copied
\* (a map); a missing or empty-string style is falsy and gives {}.
ExistingStyle(attributes) ==
    IF ~Has(attributes, "style") THEN EmptyObject
    ELSE IF Has(attributes.style, "css") THEN parseCssStringToObject(attributes.style.css)
    ELSE attributes.style.obj

\* The for-in loop over the attributes that attributeToStyleMap knows.  No two
\* entries write the same style key, so the order of the loop does not show.
RECURSIVE ApplyMappings(_, _, _)
ApplyMappings(names, attributes, styleObject) ==
    IF names = {} THEN styleObject
    ELSE LET attrName == CHOOSE n \in names : TRUE
         IN  ApplyMappings(names \ {attrName}, attributes,
                           attributeToStyleMap(attrName, attributes[attrName], styleObject))

\* Lines 182-191: the converted attributes are deleted; the style is stored
\* when it has a key and deleted when it has none.
StoreStyle(attributes, styleObject) ==
    IF DOMAIN styleObject # {}
    THEN Put([k \in DOMAIN attributes \ LegacyAttributes |-> attributes[k]],
             "style", [obj |-> styleObject])
    ELSE [k \in DOMAIN attributes \ (LegacyAttributes \cup {"style"}) |-> attributes[k]]

\* Lines 145-192: the attributes of one node after the pass.
LowerAttributes(attributes) ==
    StoreStyle(attributes,
               ApplyMappings(DOMAIN attributes \cap LegacyAttributes, attributes,
                             ExistingStyle(attributes)))

RECURSIVE traverseAndApplyPresentationalAttributes(_)
ApplyPresentationalAttributesToList(list) ==
    [i \in 1..Len(list) |-> traverseAndApplyPresentationalAttributes(list[i])]

\* Lines 194-196.
ApplyPresentationalAttributesToChildren(node) ==
    IF Has(node, "children")
    THEN [node EXCEPT !.children = ApplyPresentationalAttributesToList(node.children)]
    ELSE node

traverseAndApplyPresentationalAttributes(node) ==
    IF ~IsObject(node) THEN node
    ELSE IF Has(node, "attributes")
    THEN ApplyPresentationalAttributesToChildren(
             [node EXCEPT !.attributes = LowerAttributes(node.attributes)])
    ELSE ApplyPresentationalAttributesToChildren(node)

-----------------------------------------------------------------------------
(* Pass 2: Auxiliary-Node Consolidation *)

\* The forEach of lines 48-56 over the children of an <object> node, in order.
\* A null child makes child.tagName raise: see TransformObjectsRaises.
RECURSIVE CollectParams(_, _)
CollectParams(children, params) ==
    IF children = <<>> THEN params
    ELSE LET child == Head(children)
             isParam == TagIs(child, "param") /\ Has(child, "attributes")
             name == IF isParam /\ Has(child.attributes, "name")
                     THEN child.attributes.name ELSE ""
             value == IF isParam /\ Has(child.attributes, "value")
                      THEN child.attributes.value ELSE ""
         IN  CollectParams(Tail(children),
                           IF name # "" THEN Put(params, name, value) ELSE params)

RECURSIVE traverseAndTransformObjects(_)
TransformObjectsInList(list) ==
    [i \in 1..Len(list) |-> traverseAndTransformObjects(list[i])]

\* An <object> left as it is.
ObjectKept(node) == node

\* Lines 44-61 on a node whose children were walked already.
TransformObject(node) ==
    IF TagIs(node, "object")
    THEN Put(Put(Put(node, "tagName", "ActiveXPlaceholder"), "isComponent", TRUE),
             "children",
             <<[kind |-> "node",
                params |-> CollectParams(IF Has(node, "children") THEN node.children
                                         ELSE <<>>, EmptyObject)]>>)
    ELSE node

traverseAndTransformObjects(node) ==
    IF ~IsObject(node) THEN node
    ELSE IF Has(node, "children")
    THEN TransformObject([node EXCEPT !.children = TransformObjectsInList(node.children)])
    ELSE TransformObject(node)

\* child.tagName of line 49 raises a TypeError on a null child.
RECURSIVE TransformObjectsRaises(_)
TransformObjectsRaises(node) ==
    /\ IsObject(node)
    /\ Has(node, "children")
    /\ \/ \E i \in 1..Len(node.children) : TransformObjectsRaises(node.children[i])
       \/ TagIs(node, "object") /\ \E i \in 1..Len(node.children) : node.children[i] = JNull

-----------------------------------------------------------------------------
(* Pass 3: Expression Rewrite *)

\* The callback without the stripping of quotes.
SessionStorageGetItemQuoted(capturedArg) ==
    "sessionStorage.getItem('" \o Trim(capturedArg) \o "')"

\* The replace callback of lines 303-309.  substring(1, key.length - 1) swaps
\* its arguments when key is a single quote character, and returns key.
SessionStorageGetItem(capturedArg) ==
    LET key == Trim(capturedArg)
        quoted == \E q \in {"\"", "'"} :
                     StartsWithAt(key, 1, q) /\ StartsWithAt(key, Len(key), q)
        stripped == IF ~quoted \/ Len(key) = 1 THEN key
                    ELSE SubSeq(key, 2, Len(key) - 1)
    IN  "sessionStorage.getItem('" \o stripped \o "')"

\* condition.replace(/session\.getAttribute\((.*?)\)/g, callback)
RECURSIVE ReplaceSessionGetAttribute(_)
ReplaceSessionGetAttribute(condition) ==
    LET pattern == "session.getAttribute("
        at == IndexOfFrom(condition, pattern, 1)
        argStart == at + Len(pattern)
        close == IF at = 0 THEN 0 ELSE IndexOfFrom(condition, ")", argStart)
    IN  IF close = 0 THEN condition
        ELSE SubSeq(condition, 1, at - 1)
             \o SessionStorageGetItem(SubSeq(condition, argStart, close - 1))
             \o ReplaceSessionGetAttribute(SubSeq(condition, close + 1, Len(condition)))

RECURSIVE traverseAndReplaceSessionGetAttribute(_)
ReplaceSessionGetAttributeInList(list) ==
    [i \in 1..Len(list) |-> traverseAndReplaceSessionGetAttribute(list[i])]

\* Lines 314-316.
ReplaceSessionGetAttributeInChildren(node) ==
    IF Has(node, "children")
    THEN [node EXCEPT !.children = ReplaceSessionGetAttributeInList(node.children)]
    ELSE node

traverseAndReplaceSessionGetAttribute(node) ==
    IF ~IsObject(node) THEN node
    ELSE IF Has(node, "condition") /\ Includes(node.condition, "session.getAttribute")
    THEN ReplaceSessionGetAttributeInChildren(
             [node EXCEPT !.condition = ReplaceSessionGetAttribute(node.condition)])
    ELSE ReplaceSessionGetAttributeInChildren(node)

-----------------------------------------------------------------------------
(* Pass 4: Structural Table Repair *)

\* Lines 241-249: the style of a td/th cell with the padding merged in.  An
\* empty-string style is falsy and starts from {}.
CellStyleWithPadding(attributes, paddingValue) ==
    Put(attributes, "style",
        [obj |-> Put(ExistingStyle(attributes), "padding", paddingValue)])

\* applyPaddingToCells of lines 233-255 on one value of a children list.
RECURSIVE applyPaddingToCells(_, _)
\* Lines 251-253.
ApplyPaddingToChildren(currentNode, paddingValue) ==
    IF Has(currentNode, "children")
    THEN [currentNode EXCEPT !.children =
             [i \in 1..Len(currentNode.children) |->
                 applyPaddingToCells(currentNode.children[i], paddingValue)]]
    ELSE currentNode

applyPaddingToCells(currentNode, paddingValue) ==
    IF ~IsObject(currentNode) THEN currentNode
    ELSE IF TagIs(currentNode, "td") \/ TagIs(currentNode, "th")
    THEN ApplyPaddingToChildren(
             Put(currentNode, "attributes",
                 CellStyleWithPadding(IF Has(currentNode, "attributes")
                                      THEN currentNode.attributes ELSE EmptyObject,
                                      paddingValue)),
             paddingValue)
    ELSE ApplyPaddingToChildren(currentNode, paddingValue)

\* A table left as it is.
WithoutTbody(node) == node

\* Lines 220-226: the children of a table that does not start with a tbody
\* are wrapped in one.
WrapInTbody(node) ==
    IF Has(node, "children") /\ Len(node.children) > 0
       /\ ~TagIs(node.children[1], "tbody")
    THEN [node EXCEPT !.children =
             <<[kind |-> "node", tagName |-> "tbody", children |-> node.children]>>]
    ELSE node

\* Lines 229-260: a non-empty cellpadding becomes the padding of every cell
\* below the table and is deleted from the table.
ApplyCellpadding(node) ==
    IF /\ Has(node, "attributes")
       /\ Has(node.attributes, "cellpadding")
       /\ node.attributes.cellpadding # ""
    THEN [ApplyPaddingToChildren(node, addPxIfNeeded(node.attributes.cellpadding))
             EXCEPT !.attributes = Delete(node.attributes, "cellpadding")]
    ELSE node

\* Lines 219-261, the table branch: tbody wrap, then cellpadding.
RepairTable(node) == ApplyCellpadding(WrapInTbody(node))

\* A row left as it is.
RowAsIs(node) == node

\* Lines 262-276, the tr branch: every child that is not a td/th is wrapped.
RepairRow(node) ==
    [node EXCEPT !.children =
        [i \in 1..Len(node.children) |->
            IF TagIs(node.children[i], "td") \/ TagIs(node.children[i], "th")
            THEN node.children[i]
            ELSE [kind |-> "node", tagName |-> "td",
                  attributes |-> [style |-> [obj |-> [display |-> "none"]]],
                  children |-> <<node.children[i]>>]]]

RECURSIVE traverseAndProcessTableStructure(_)
ProcessTableStructureInList(list) ==
    [i \in 1..Len(list) |-> traverseAndProcessTableStructure(list[i])]

\* Lines 278-280.
ProcessTableStructureInChildren(node) ==
    IF Has(node, "children")
    THEN [node EXCEPT !.children = ProcessTableStructureInList(node.children)]
    ELSE node

traverseAndProcessTableStructure(node) ==
    IF ~IsObject(node) THEN node
    ELSE IF TagIs(node, "table")
    THEN ProcessTableStructureInChildren(RepairTable(node))
    ELSE IF TagIs(node, "tr") /\ Has(node, "children")
    THEN ProcessTableStructureInChildren(RepairRow(node))
    ELSE ProcessTableStructureInChildren(node)

\* node.children[0].tagName of line 222 raises a TypeError on a table whose
\* first child is null.  No step of the pass changes which value stands first
\* among a node's own children before the node is visited.
RECURSIVE ProcessTableStructureRaises(_)
ProcessTableStructureRaises(node) ==
    /\ IsObject(node)
    /\ Has(node, "children")
    /\ \/ \E i \in 1..Len(node.children) : ProcessTableStructureRaises(node.children[i])
       \/ /\ TagIs(node, "table")
          /\ Len(node.children) > 0
          /\ node.children[1] = JNull

-----------------------------------------------------------------------------
(* Pass 5: Nesting Repair *)

\* No rule at all.
noRules(node, parent) == node

\* nestingRules, lines 355-411: what stands at node's position in its parent's
\* children (in the root list when parent is null) after the rules ran.  The
\* four match predicates are mutually exclusive.  No node of a parsed tree has
\* a "parent" field (the traversal passes the parent as an argument and stores
\* it nowhere), so parent.parent is undefined, `if (parent.parent)` of the
\* p>form and table>form fixes is not taken, and the two fixes change nothing.
nestingRules(node, parent) ==
    CASE TagIs(parent, "tr") /\ TagIs(node, "form") ->
            [kind |-> "node", tagName |-> "td", attributes |-> EmptyObject,
             children |-> <<node>>]
      [] TagIs(parent, "p") /\ TagIs(node, "form") -> node
      [] TagIs(parent, "table") /\ TagIs(node, "form") -> node
      [] TagIs(node, "td") /\ ~TagIs(parent, "tr") ->
            [kind |-> "node", tagName |-> "table", attributes |-> EmptyObject,
             children |-> <<[kind |-> "node", tagName |-> "tr",
                             attributes |-> EmptyObject, children |-> <<node>>]>>]
      [] OTHER -> node

\* The traversal visits node, then its children with node as their parent.  A
\* fix replaces the element at the index being visited and adds no element, so
\* the wrappers it makes are not visited.
RECURSIVE traverseAndFixInvalidNesting(_, _)
FixInvalidNestingInList(list, parent) ==
    [i \in 1..Len(list) |-> traverseAndFixInvalidNesting(list[i], parent)]

traverseAndFixInvalidNesting(node, parent) ==
    IF ~IsObject(node) THEN node
    ELSE nestingRules(IF Has(node, "children")
                      THEN [node EXCEPT
                               !.children = FixInvalidNestingInList(node.children, node)]
                      ELSE node,
                      parent)

-----------------------------------------------------------------------------
(* Pass 6: Filter & Flatten *)

\* The removed tags with form among them.
tagsToRemoveForm == {"meta", "title", "link", "script", "noscript", "style", "form"}

\* Line 331.
tagsToRemove == {"meta", "title", "link", "script", "noscript", "style"}

\* The wrappers without body.
tagsToUnwrapHead == {"html", "head"}

\* Line 336.
tagsToUnwrap == {"html", "head", "body"}

RECURSIVE processJsonElements(_)
processJsonElements(elements) ==
    IF elements = <<>> THEN <<>>
    ELSE LET currentElement == Head(elements)
             hasTag == IsObject(currentElement) /\ Has(currentElement, "tagName")
             rest == processJsonElements(Tail(elements))
         IN  IF hasTag /\ currentElement.tagName \in tagsToRemove THEN rest
             ELSE IF hasTag /\ currentElement.tagName \in tagsToUnwrap
             THEN (IF Has(currentElement, "children")
                   THEN processJsonElements(currentElement.children)
                   ELSE <<>>) \o rest
             ELSE IF /\ IsObject(currentElement)
                     /\ Has(currentElement, "children")
                     /\ Len(currentElement.children) > 0
             THEN <<[currentElement EXCEPT
                        !.children = processJsonElements(currentElement.children)]>>
                  \o rest
             ELSE <<currentElement>> \o rest

\* currentElement.tagName of line 332 raises a TypeError on a null element of
\* a list the reduce reaches: not the children of a removed node.
RECURSIVE ProcessJsonElementsRaises(_)
ProcessJsonElementsRaises(elements) ==
    \E i \in 1..Len(elements) :
        \/ elements[i] = JNull
        \/ /\ IsObject(elements[i])
           /\ Has(elements[i], "children")
           /\ ~(Has(elements[i], "tagName") /\ elements[i].tagName \in tagsToRemove)
           /\ ProcessJsonElementsRaises(elements[i].children)

-----------------------------------------------------------------------------
(* generateAndValidateJson: the body of the try block *)

\* A text is [json |-> v] when it is the serialization of the JSON value v and
\* [garbage |-> n] when it is no JSON at all.  A parsed root is null, a
\* primitive ([kind |-> "primitive"]), an array ([kind |-> "array"]) or an
\* object ([kind |-> "node"], with or without the field elements).
JSONparse(text) ==
    IF Has(text, "json") THEN [ok |-> TRUE, value |-> text.json] ELSE [ok |-> FALSE]

\* JSON.stringify(parsedJson, null, 2).  The property elements that line 467
\* sets on an array is no index of it and is not serialized.
JSONstringify(value) ==
    [json |-> IF value.kind = "array" THEN Delete(value, "elements") ELSE value]

\* The six calls with the table repair after the nesting repair.
PassOrderSwapped ==
    <<"traverseAndApplyPresentationalAttributes", "traverseAndTransformObjects",
      "traverseAndReplaceSessionGetAttribute", "traverseAndFixInvalidNesting",
      "traverseAndProcessTableStructure", "processJsonElements">>

\* Lines 453-467: the six calls in the order of the source.
PassOrder ==
    <<"traverseAndApplyPresentationalAttributes", "traverseAndTransformObjects",
      "traverseAndReplaceSessionGetAttribute", "traverseAndProcessTableStructure",
      "traverseAndFixInvalidNesting", "processJsonElements">>

\* The call of one pass on parsedJson.elements (an array).
ApplyPass(name, elements) ==
    CASE name = "traverseAndApplyPresentationalAttributes" ->
            ApplyPresentationalAttributesToList(elements)
      [] name = "traverseAndTransformObjects" -> TransformObjectsInList(elements)
      [] name = "traverseAndReplaceSessionGetAttribute" ->
            ReplaceSessionGetAttributeInList(elements)
      [] name = "traverseAndProcessTableStructure" ->
            ProcessTableStructureInList(elements)
      [] name = "traverseAndFixInvalidNesting" -> FixInvalidNestingInList(elements, JNull)
      [] name = "processJsonElements" -> processJsonElements(elements)

\* Whether that call raises a TypeError.
PassRaises(name, elements) ==
    CASE name = "traverseAndTransformObjects" ->
            \E i \in 1..Len(elements) : TransformObjectsRaises(elements[i])
      [] name = "traverseAndProcessTableStructure" ->
            \E i \in 1..Len(elements) : ProcessTableStructureRaises(elements[i])
      [] name = "processJsonElements" -> ProcessJsonElementsRaises(elements)
      [] OTHER -> FALSE

\* The calls one after the other, each on the elements the one before left,
\* until one raises.
RECURSIVE RunPasses(_, _, _)
RunPasses(passes, elements, called) ==
    IF passes = <<>>
    THEN [raised |-> FALSE, called |-> called, elements |-> elements]
    ELSE IF PassRaises(Head(passes), elements)
    THEN [raised |-> TRUE, called |-> Append(called, Head(passes)), elements |-> elements]
    ELSE RunPasses(Tail(passes), ApplyPass(Head(passes), elements),
                   Append(called, Head(passes)))

\* Line 467 and JSON.stringify of line 469 after the calls run made.
Reassigned(parsedJson, run) ==
    [raised |-> run.raised, called |-> run.called,
     value |-> [parsedJson EXCEPT !.elements = run.elements]]

\* Lines 450-467 on the parsed root.  Reading null.elements raises before the
\* first call.  On a root without elements every pass gets undefined and
\* returns at once, processJsonElements returns [], and the assignment of line
\* 467 raises on a primitive (the file is an ES module: strict mode).
Postprocess(parsedJson) ==
    IF parsedJson = JNull
    THEN [raised |-> TRUE, called |-> <<>>, value |-> parsedJson]
    ELSE IF IsObject(parsedJson) /\ Has(parsedJson, "elements")
    THEN Reassigned(parsedJson, RunPasses(PassOrder, parsedJson.elements, <<>>))
    ELSE [raised |-> parsedJson.kind = "primitive", called |-> PassOrder,
          value |-> IF parsedJson.kind = "primitive" THEN parsedJson
                    ELSE Put(parsedJson, "elements", <<>>)]

\* How the try block ends once the text parsed: a TypeError of lines 450-467
\* reaches the catch like a SyntaxError of JSON.parse does.
Completion(post) ==
    IF post.raised THEN [thrown |-> TRUE, called |-> post.called]
    ELSE [thrown |-> FALSE, called |-> post.called,
          returned |-> JSONstringify(post.value)]

\* Lines 446-469: JSON.parse and the passes.  thrown is what reaches the catch.
TryBlock(content) ==
    IF ~JSONparse(content).ok THEN [thrown |-> TRUE, called |-> <<>>]
    ELSE Completion(Postprocess(JSONparse(content).value))

-----------------------------------------------------------------------------
(* The candidates the generator may answer with *)

\* Number of distinct texts that are no JSON.
MaxGarbage == 2

Element(tag, children) == [kind |-> "node", tagName |-> tag, children |-> children]

Root(elements) == [kind |-> "node", elements |-> elements]

\* <html><head><title/></head><body><table cellpadding=5 width=100><tr><form/><td/>
PageTree ==
    Root(<<Element("html",
            <<Element("head", <<Element("title", <<>>)>>),
              Element("body",
                <<[kind |-> "node", tagName |-> "table",
                   attributes |-> [cellpadding |-> "5", width |-> "100"],
                   children |-> <<Element("tr", <<Element("form", <<>>),
                                                   Element("td", <<>>)>>)>>]>>)>>)>>)

\* A top-level td, a form in a p, an <object> with a param, a condition.
FragmentTree ==
    Root(<<[kind |-> "node", tagName |-> "td", attributes |-> [align |-> "left"]],
           Element("p", <<Element("form", <<>>)>>),
           Element("object",
             <<[kind |-> "node", tagName |-> "param",
                attributes |-> [name |-> "src", value |-> "a.cab"]]>>),
           [kind |-> "node", tagName |-> "If",
            condition |-> "session.getAttribute('role')=='admin'"]>>)

\* The JSON values a candidate may hold: the two trees above; roots that are
\* no object with elements; trees with a null where a node is expected.
ParsedValues ==
    {PageTree, FragmentTree,
     JNull,
     [kind |-> "primitive"],
     [kind |-> "array", items |-> <<Element("td", <<>>)>>],
     [kind |-> "node"],
     Root(<<JNull>>),
     Root(<<Element("table", <<JNull>>)>>),
     Root(<<Element("object", <<JNull>>)>>)}

Candidates ==
    {[garbage |-> n] : n \in 1..MaxGarbage} \cup {[json |-> v] : v \in ParsedValues}

-----------------------------------------------------------------------------
(* generateAndValidateJson: the loop *)

maxAttempts == 3

\* Line 481, the content of the corrective user record:
\* "the integrated result is wrong, integrate again".
CorrectiveInstruction == [prose |-> "integrate again"]

ExhaustedError == "Failed to generate valid JSON after multiple attempts."

\* What a failed request to the generator rejects with (line 485, or the
\* iteration of the stream, line 493).
GeneratorError == "generator request failed"

\* sessions[sessionId] when /chat calls the function without tool calls
\* (lines 512-549): the system prompt, the user's message, the response.
InitialHistory(initialContent) ==
    <<[role |-> "system", content |-> [prose |-> "system prompt"]],
      [role |-> "user", content |-> [prose |-> "message"]],
      [role |-> "assistant", content |-> initialContent]>>

\* A ceiling test that lets one more attempt through.
ExhaustedOff(n) == n > maxAttempts

\* Line 474.
Exhausted(n) == n >= maxAttempts

\* The corrective instruction without the candidate it answers.
FailureRecordsOne(content) ==
    <<[role |-> "user", content |-> CorrectiveInstruction]>>

\* Lines 478-482.
FailureRecords(content) ==
    <<[role |-> "assistant", content |-> content],
      [role |-> "user", content |-> CorrectiveInstruction]>>

LoopInit ==
    /\ pc = "parsing"
    /\ attempt = 1
    /\ currentContent \in Candidates
    /\ history = InitialHistory(currentContent)
    /\ outcome = [kind |-> "pending"]
    /\ passLog = <<>>
    /\ parseLog = <<>>
    /\ requests = <<>>

\* The passes an attempt called, as entries of passLog.
Calls(called) == [i \in 1..Len(called) |-> [attempt |-> attempt, pass |-> called[i]]]

\* Lines 446-469: the candidate parses, no pass raises, the function returns.
AttemptReturns(try) ==
    /\ pc = "parsing"
    /\ ~try.thrown
    /\ parseLog' = Append(parseLog, currentContent)
    /\ passLog' = passLog \o Calls(try.called)
    /\ outcome' = [kind |-> "returned", value |-> try.returned]
    /\ pc' = "returned"
    /\ UNCHANGED <<attempt, currentContent, history, requests>>
    /\ UNCHANGED <<execVars, passVars, walkVars>>

\* Lines 471-490: the try block throws before the last attempt; the two
\* records are pushed and the generator is asked with the whole history.
AttemptFails(try) ==
    /\ pc = "parsing"
    /\ try.thrown
    /\ ~Exhausted(attempt)
    /\ parseLog' = Append(parseLog, currentContent)
    /\ passLog' = passLog \o Calls(try.called)
    /\ history' = history \o FailureRecords(currentContent)
    /\ requests' = Append(requests, [attempt |-> attempt, messages |-> history'])
    /\ pc' = "regenerating"
    /\ UNCHANGED <<attempt, currentContent, outcome>>
    /\ UNCHANGED <<execVars, passVars, walkVars>>

\* Lines 471-476: the try block throws at the last attempt.
AttemptExhausts(try) ==
    /\ pc = "parsing"
    /\ try.thrown
    /\ Exhausted(attempt)
    /\ parseLog' = Append(parseLog, currentContent)
    /\ passLog' = passLog \o Calls(try.called)
    /\ outcome' = [kind |-> "raised", error |-> ExhaustedError]
    /\ pc' = "raised"
    /\ UNCHANGED <<attempt, currentContent, history, requests>>
    /\ UNCHANGED <<execVars, passVars, walkVars>>

\* Lines 492-497, then attempt++ and the test attempt <= maxAttempts of line
\* 445: the stream ends and its text is the next candidate; a loop that ran
\* out falls off the end of the function, which returns undefined.
Regenerated ==
    /\ pc = "regenerating"
    /\ \E regeneratedContent \in Candidates : currentContent' = regeneratedContent
    /\ attempt' = attempt + 1
    /\ IF attempt + 1 <= maxAttempts
       THEN pc' = "parsing" /\ UNCHANGED outcome
       ELSE pc' = "returned" /\ outcome' = [kind |-> "returned", value |-> [undefined |-> TRUE]]
    /\ UNCHANGED <<history, passLog, parseLog, requests>>
    /\ UNCHANGED <<execVars, passVars, walkVars>>

\* Lines 485-495: the request or the stream fails.  The await stands inside
\* the catch block, nothing catches its error, and the function rejects with it.
RegenerationFails ==
    /\ pc = "regenerating"
    /\ outcome' = [kind |-> "raised", error |-> GeneratorError]
    /\ pc' = "raised"
    /\ UNCHANGED <<attempt, currentContent, history, passLog, parseLog, requests>>
    /\ UNCHANGED <<execVars, passVars, walkVars>>

-----------------------------------------------------------------------------
(* handleToolCalls and runWithConcurrencyLimit *)

\* The batch holds the tool calls of a response, each with an id and a
\* function, and sessions[sessionId] exists from line 222 on.  While it
\* exists every statement of a task function that can raise stands inside
\* the try of line 243, and no promise of a task is rejected.  Only
\* DeleteSession removes it, and only DeleteSpec takes that step.

MAX_CONCURRENT == 2

\* Largest batch of tool calls.
MaxCalls == 3

\* JSON5.parse accepts every JSON text and the texts only JSON5 allows
\* ([json5 |-> v]: single quotes, trailing commas, unquoted keys).
JSON5parse(text) ==
    IF Has(text, "json") THEN [ok |-> TRUE, value |-> text.json]
    ELSE IF Has(text, "json5") THEN [ok |-> TRUE, value |-> text.json5]
    ELSE [ok |-> FALSE]

\* The keys of availableTools.
availableTools == {"fetch_jsp"}

Arguments == [kind |-> "node", path |-> "a.jsp"]

\* What a tool call names and carries: a tool with arguments JSON5 reads, the
\* same tool with arguments it does not read, a tool that does not exist
\* (with arguments JSON5 does not read either).
ToolCallShapes ==
    {[name |-> "fetch_jsp", arguments |-> [json5 |-> Arguments]],
     [name |-> "fetch_jsp", arguments |-> [garbage |-> 1]],
     [name |-> "no_such_tool", arguments |-> [garbage |-> 1]]}

\* The texts fixJsonWithLlm may resolve with: any non-empty text.
RepairedTexts == {[json |-> Arguments], [json5 |-> Arguments], [garbage |-> 1]}

\* What a tool resolves with.
ToolResults == {[kind |-> "node", page |-> "a.jsp"]}

\* The messages of the errors a task catches: a rejected fixJsonWithLlm
\* (line 115), a SyntaxError of JSON.parse, an error of the tool.
RepairFailed == "LLM-based JSON repair failed."
SyntaxError == "Unexpected token"
ToolFailed == "tool failed"

CallId(i) == <<"call", i>>

\* A record that carries the identifier of the first call of the batch.
ToolMessageOfFirst(toolCall, content) ==
    [role |-> "tool", tool_call_id |-> CallId(1), content |-> JSONstringify(content)]

\* The record a task pushes to sessions[sessionId].
ToolMessage(toolCall, content) ==
    [role |-> "tool", tool_call_id |-> toolCall.id, content |-> JSONstringify(content)]

\* What the task function returns.
ErrorRecord(toolCall, message) ==
    [toolName |-> toolCall.function.name, toolCallId |-> toolCall.id, error |-> message]

ResultRecord(toolCall, result) ==
    [toolName |-> toolCall.function.name, toolCallId |-> toolCall.id, result |-> result]

\* The early return without the push of lines 235-239.
NoSuchToolUnrecorded(toolCall) ==
    [task |-> [state |-> "fulfilled",
               value |-> ErrorRecord(toolCall, "no tool " \o toolCall.function.name)],
     pushed |-> <<>>]

\* Lines 233-241: the tool does not exist.
NoSuchTool(toolCall) ==
    [task |-> [state |-> "fulfilled",
               value |-> ErrorRecord(toolCall, "no tool " \o toolCall.function.name)],
     pushed |-> <<ToolMessage(toolCall,
                              [kind |-> "node",
                               error |-> "no tool " \o toolCall.function.name])>>]

\* A task function without the catch block: the error rejects its promise.
Uncaught(toolCall, message) ==
    [task |-> [state |-> "rejected", reason |-> message], pushed |-> <<>>]

\* Lines 269-278, the catch block: the error becomes a record of the history
\* and the value of the task.
Caught(toolCall, message) ==
    [task |-> [state |-> "fulfilled", value |-> ErrorRecord(toolCall, message)],
     pushed |-> <<ToolMessage(toolCall,
                              [kind |-> "node",
                               error |-> "error while running tool: " \o message])>>]

\* Lines 258-267: the tool resolved.
Completed(toolCall, result) ==
    [task |-> [state |-> "fulfilled", value |-> ResultRecord(toolCall, result)],
     pushed |-> <<ToolMessage(toolCall, result)>>]

\* Line 258: the task awaits the tool.
Calling(args) == [task |-> [state |-> "calling", args |-> args], pushed |-> <<>>]

\* Lines 228-258: the task function up to its return or its first await.
FirstStep(toolCall) ==
    IF toolCall.function.name \notin availableTools THEN NoSuchTool(toolCall)
    ELSE IF JSON5parse(toolCall.function.arguments).ok
    THEN Calling(JSON5parse(toolCall.function.arguments).value)
    ELSE [task |-> [state |-> "repairing"], pushed |-> <<>>]

\* The repaired text handed to the tool whether JSON.parse reads it or not.
AfterRepairUnparsed(toolCall, fixedJsonString) ==
    Calling(IF JSONparse(fixedJsonString).ok THEN JSONparse(fixedJsonString).value
            ELSE fixedJsonString)

\* Lines 253-258: fixJsonWithLlm resolved and JSON.parse reads its text.
AfterRepair(toolCall, fixedJsonString) ==
    IF JSONparse(fixedJsonString).ok THEN Calling(JSONparse(fixedJsonString).value)
    ELSE Caught(toolCall, SyntaxError)

\* The error of sessions[sessionId].push when the session was deleted.
TypeError == "Cannot read properties of undefined (reading 'push')"

\* Lines 235, 261 and 273: a step that pushes needs sessions[sessionId].
\* Without it the push of line 235 raises outside the try, and the push of
\* line 261 raises into the catch block, whose own push of line 273 raises
\* again: the promise of the task is rejected.
InSession(step, exists) ==
    IF step.pushed = <<>> \/ exists THEN step
    ELSE [task |-> [state |-> "rejected", reason |-> TypeError], pushed |-> <<>>]

\* The calls a task function makes: JSON5.parse (line 249), fixJsonWithLlm
\* (line 253), JSON.parse (line 254), the tool (line 258).
NoCalls == [JSON5parse |-> 0, fixJsonWithLlm |-> 0, JSONparse |-> 0, toolToCall |-> 0]

Plus(counts, calls) == [call \in DOMAIN counts |-> counts[call] + calls[call]]

\* The calls of lines 228-258, up to the return or the first await.
FirstCalls(toolCall) ==
    IF toolCall.function.name \notin availableTools THEN NoCalls
    ELSE IF JSON5parse(toolCall.function.arguments).ok
    THEN [NoCalls EXCEPT !.JSON5parse = 1, !.toolToCall = 1]
    ELSE [NoCalls EXCEPT !.JSON5parse = 1, !.fixJsonWithLlm = 1]

\* The calls of lines 254-258, once fixJsonWithLlm resolved.
RepairCalls(fixedJsonString) ==
    IF JSONparse(fixedJsonString).ok
    THEN [NoCalls EXCEPT !.JSONparse = 1, !.toolToCall = 1]
    ELSE [NoCalls EXCEPT !.JSONparse = 1]

\* An admission test that waits one task too late.
MustWaitLate(size) == size > MAX_CONCURRENT

\* Line 213.
MustWait(size) == size >= MAX_CONCURRENT

\* Batch-and-wait: the loop goes on when every promise of the batch settled.
RaceSettledAll(promises) == \A p \in promises : task[p].state = "settled"

\* Promise.race of line 214 settles with the first of its promises to settle.
RaceSettled(promises) == \E p \in promises : task[p].state = "settled"

\* The values in the order in which the tasks completed.
PromiseAllAsSettled(promises) ==
    [k \in 1..Len(toolLog) |->
        task[CHOOSE p \in 1..Len(promises) :
                 CallId(p) = toolLog[k].tool_call_id].value]

\* Promise.all of line 217: the values of the promises in the order of the
\* array.
PromiseAll(promises) == [k \in 1..Len(promises) |-> task[promises[k]].value]

\* The loop while the executor is what runs.
LoopIdle ==
    /\ pc = "idle"
    /\ attempt = 0
    /\ currentContent = [garbage |-> 1]
    /\ history = <<>>
    /\ outcome = [kind |-> "pending"]
    /\ passLog = <<>>
    /\ parseLog = <<>>
    /\ requests = <<>>

\* The passes while something else is what runs.
PassIdle ==
    /\ source = <<>>
    /\ tree = <<>>
    /\ before = <<>>
    /\ done = <<>>

\* No walk in progress.
WalkIdle ==
    /\ heap = <<>>
    /\ rootElements = <<>>
    /\ frames = <<>>
    /\ evaluated = <<>>

\* The executor while the loop is what runs.
ExecIdle ==
    /\ toolCalls = <<>>
    /\ epc = "idle"
    /\ nextTask = 1
    /\ task = <<>>
    /\ results = <<>>
    /\ executing = {}
    /\ raced = {}
    /\ toolLog = <<>>
    /\ execResult = [kind |-> "pending"]
    /\ callCount = <<>>
    /\ sessionExists = TRUE
    /\ chat = [pc |-> "idle"]

\* /chat calls handleToolCalls with the tool calls of the response.
ExecInit ==
    /\ \E n \in 0..MaxCalls :
          \E shapes \in [1..n -> ToolCallShapes] :
              /\ toolCalls = [i \in 1..n |-> [id |-> CallId(i), function |-> shapes[i]]]
              /\ task = [i \in 1..n |-> [state |-> "unstarted"]]
              /\ callCount = [i \in 1..n |-> NoCalls]
    /\ epc = "called"
    /\ nextTask = 1
    /\ results = <<>>
    /\ executing = {}
    /\ raced = {}
    /\ toolLog = <<>>
    /\ execResult = [kind |-> "pending"]
    /\ sessionExists = TRUE
    /\ chat = [pc |-> "awaiting"]

ExecStart == LoopIdle /\ ExecInit /\ PassIdle /\ WalkIdle

\* Line 221.
NoToolCalls ==
    /\ epc = "called"
    /\ Len(toolCalls) = 0
    /\ epc' = "resolved"
    /\ execResult' = [kind |-> "resolved", value |-> <<>>]
    /\ UNCHANGED <<toolCalls, nextTask, task, results, executing, raced, toolLog>>
    /\ UNCHANGED callCount
    /\ UNCHANGED <<sessionVars, loopVars, passVars, walkVars>>

\* Lines 222-227, 282 and 205-206: the tasks are made and the executor is
\* called.
MapTasks ==
    /\ epc = "called"
    /\ Len(toolCalls) > 0
    /\ epc' = "loop"
    /\ UNCHANGED <<toolCalls, nextTask, task, results, executing, raced, toolLog,
                   execResult>>
    /\ UNCHANGED callCount
    /\ UNCHANGED <<sessionVars, loopVars, passVars, walkVars>>

\* Lines 208-215, one iteration of the for loop: the task is called and runs
\* to its return or its first await; its promise is pushed and added; at the
\* limit the loop awaits the race of the promises executing.
StartTask ==
    /\ epc = "loop"
    /\ nextTask <= Len(toolCalls)
    /\ task' = [task EXCEPT ![nextTask] =
                   InSession(FirstStep(toolCalls[nextTask]), sessionExists).task]
    /\ toolLog' = toolLog \o InSession(FirstStep(toolCalls[nextTask]), sessionExists).pushed
    /\ results' = Append(results, nextTask)
    /\ executing' = executing \cup {nextTask}
    /\ nextTask' = nextTask + 1
    /\ IF MustWait(Cardinality(executing'))
       THEN epc' = "racing" /\ raced' = executing'
       ELSE epc' = "loop" /\ raced' = raced
    /\ callCount' = [callCount EXCEPT ![nextTask] = FirstCalls(toolCalls[nextTask])]
    /\ UNCHANGED <<toolCalls, execResult>>
    /\ UNCHANGED <<sessionVars, loopVars, passVars, walkVars>>

\* Line 214: the race settled and the loop goes on.
RaceSettles ==
    /\ epc = "racing"
    /\ RaceSettled(raced)
    /\ epc' = "loop"
    /\ raced' = {}
    /\ UNCHANGED <<toolCalls, nextTask, task, results, executing, toolLog, execResult>>
    /\ UNCHANGED callCount
    /\ UNCHANGED <<sessionVars, loopVars, passVars, walkVars>>

\* Line 217: no task is left and the executor returns Promise.all(results).
LoopEnds ==
    /\ epc = "loop"
    /\ nextTask > Len(toolCalls)
    /\ epc' = "joining"
    /\ UNCHANGED <<toolCalls, nextTask, task, results, executing, raced, toolLog,
                   execResult>>
    /\ UNCHANGED callCount
    /\ UNCHANGED <<sessionVars, loopVars, passVars, walkVars>>

\* Lines 217 and 282-285: every promise is fulfilled and handleToolCalls returns
\* the values.
AllSettled ==
    /\ epc = "joining"
    /\ \A p \in 1..Len(results) : task[results[p]].state = "settled"
    /\ epc' = "resolved"
    /\ execResult' = [kind |-> "resolved", value |-> PromiseAll(results)]
    /\ UNCHANGED <<toolCalls, nextTask, task, results, executing, raced, toolLog>>
    /\ UNCHANGED callCount
    /\ UNCHANGED <<sessionVars, loopVars, passVars, walkVars>>

\* A callback of a task runs only while the for loop is suspended.
Suspended == epc \in {"racing", "joining"}

\* What a step of task i leaves: its position, the records it pushed and the
\* calls it made.
Step(i, step, calls) ==
    /\ task' = [task EXCEPT ![i] = InSession(step, sessionExists).task]
    /\ toolLog' = toolLog \o InSession(step, sessionExists).pushed
    /\ callCount' = [callCount EXCEPT ![i] = Plus(@, calls)]
    /\ UNCHANGED <<toolCalls, epc, nextTask, results, executing, raced, execResult>>
    /\ UNCHANGED <<sessionVars, loopVars, passVars, walkVars>>

\* Lines 253-258: fixJsonWithLlm resolved.
RepairReturns(i) ==
    /\ Suspended
    /\ task[i].state = "repairing"
    /\ \E fixedJsonString \in RepairedTexts :
          Step(i, AfterRepair(toolCalls[i], fixedJsonString), RepairCalls(fixedJsonString))

\* Lines 253 and 269: fixJsonWithLlm rejected.
RepairFails(i) ==
    /\ Suspended
    /\ task[i].state = "repairing"
    /\ Step(i, Caught(toolCalls[i], RepairFailed), NoCalls)

\* Lines 258-267: the tool resolved.
ToolReturns(i) ==
    /\ Suspended
    /\ task[i].state = "calling"
    /\ \E result \in ToolResults : Step(i, Completed(toolCalls[i], result), NoCalls)

\* Lines 258 and 269: the tool rejected.
ToolThrows(i) ==
    /\ Suspended
    /\ task[i].state = "calling"
    /\ Step(i, Caught(toolCalls[i], ToolFailed), NoCalls)

\* Line 209: the finally callback of a fulfilled task deletes its promise from
\* executing, and the promise settles with the value of the task.
Finally(i) ==
    /\ Suspended
    /\ task[i].state = "fulfilled"
    /\ task' = [task EXCEPT ![i].state = "settled"]
    /\ executing' = executing \ {i}
    /\ UNCHANGED <<toolCalls, epc, nextTask, results, raced, toolLog, execResult>>
    /\ UNCHANGED callCount
    /\ UNCHANGED <<sessionVars, loopVars, passVars, walkVars>>

\* The record /chat pushes once the tools have run (index.js, lines 553-556).
IntegrationPrompt == [role |-> "user", content |-> "integrate the results"]

\* index.js, lines 550-556: handleToolCalls resolved and /chat pushes the
\* integration prompt to sessions[sessionId]; chat.history is the session as
\* the push leaves it.  Without the session the push raises and /chat
\* answers with status 500 (lines 591-594).
PromptPushed ==
    /\ epc = "resolved"
    /\ Len(toolCalls) > 0
    /\ chat.pc = "awaiting"
    /\ chat' = IF sessionExists
               THEN [pc |-> "integrating", history |-> Append(toolLog, IntegrationPrompt)]
               ELSE [pc |-> "failed", error |-> TypeError]
    /\ UNCHANGED <<toolCalls, epc, nextTask, task, results, executing, raced, toolLog,
                   execResult, callCount, sessionExists>>
    /\ UNCHANGED <<loopVars, passVars, walkVars>>

\* README.md, lines 293-299, called by the delete route (index.js, lines
\* 609-613) while handleToolCalls awaits: the entry of the session is
\* removed from sessions, and its history with it.
DeleteSession ==
    /\ Suspended
    /\ sessionExists
    /\ sessionExists' = FALSE
    /\ toolLog' = <<>>
    /\ UNCHANGED <<toolCalls, epc, nextTask, task, results, executing, raced,
                   execResult, callCount, chat>>
    /\ UNCHANGED <<loopVars, passVars, walkVars>>

\* What handleToolCalls ends with when an awaited promise is rejected: lines
\* 214, 217 and 282 stand in no try.
Rejects(reason) ==
    /\ epc' = "rejected"
    /\ execResult' = [kind |-> "rejected", reason |-> reason]

\* Line 209: the finally callback of a rejected task deletes its promise from
\* executing, and the promise is rejected with the reason of the task.  The
\* pending Promise.race of line 214 is rejected with it when none of its
\* promises settled before.
FinallyRejected(i) ==
    /\ Suspended
    /\ task[i].state = "rejected"
    /\ task' = [task EXCEPT ![i].state = "failed"]
    /\ executing' = executing \ {i}
    /\ IF epc = "racing" /\ i \in raced /\ ~RaceSettled(raced)
       THEN Rejects(task[i].reason)
       ELSE UNCHANGED <<epc, execResult>>
    /\ UNCHANGED <<toolCalls, nextTask, results, raced, toolLog, callCount>>
    /\ UNCHANGED <<sessionVars, loopVars, passVars, walkVars>>

\* Line 217: Promise.all is rejected as soon as one of its promises is.
AllRejects ==
    /\ epc = "joining"
    /\ \E p \in 1..Len(results) :
          /\ task[results[p]].state = "failed"
          /\ Rejects(task[results[p]].reason)
    /\ UNCHANGED <<toolCalls, nextTask, task, results, executing, raced, toolLog,
                   callCount>>
    /\ UNCHANGED <<sessionVars, loopVars, passVars, walkVars>>

-----------------------------------------------------------------------------
(* The six passes applied to trees of nodes *)

\* Longest chain of nested nodes among the generated inputs.
MaxDepth == 3

ChainTags == {"table", "tbody", "tr", "td", "th", "form", "p", "body", "script", "div"}

\* <t1><t2>...<tn/>...</t2></t1>
RECURSIVE Chain(_)
Chain(tags) ==
    IF Len(tags) = 1 THEN [kind |-> "node", tagName |-> tags[1]]
    ELSE Element(Head(tags), <<Chain(Tail(tags))>>)

Chains == {<<Chain(tags)>> : tags \in UNION {[1..d -> ChainTags] : d \in 1..MaxDepth}}

AttributeNames == LegacyAttributes \cup {"cellpadding"}

AttributeValues == {"0", "100", "50%"}

\* <table a="v"><tr><td/></tr></table> for every legacy attribute and value.
AttributeTables ==
    {<<[kind |-> "node", tagName |-> "table", attributes |-> (a :> v),
        children |-> <<Element("tr", <<[kind |-> "node", tagName |-> "td"]>>)>>]>> :
        a \in AttributeNames, v \in AttributeValues}

Leaf(tag) == [kind |-> "node", tagName |-> tag]

\* Nodes with several attributes, with and without a style of their own.
StyledNodes ==
    <<[kind |-> "node", tagName |-> "div",
       attributes |-> [width |-> "100", align |-> "left"]],
      [kind |-> "node", tagName |-> "td",
       attributes |-> [style |-> [css |-> "text-align: right; color: red"],
                       align |-> "left", id |-> "c1"]],
      [kind |-> "node", tagName |-> "td",
       attributes |-> [style |-> [obj |-> [whiteSpace |-> "normal", margin |-> "0"]],
                       nowrap |-> "", cellpadding |-> "3"]],
      [kind |-> "node", tagName |-> "img",
       attributes |-> [border |-> "2", background |-> "a.png", height |-> "50%",
                       size |-> "3", style |-> [css |-> ""]]]>>

\* A table without tbody: two rows, cells and other nodes among them.
WideTable ==
    <<[kind |-> "node", tagName |-> "table",
       attributes |-> [cellpadding |-> "5", cellspacing |-> "2"],
       children |-> <<Element("tr", <<Leaf("form"), Leaf("td"), [kind |-> "primitive"],
                                       Leaf("th")>>),
                      Element("tr", <<Element("td", <<Element("table", <<Leaf("td")>>)>>)>>),
                      Leaf("caption")>>]>>

\* Cells outside rows, at the top level and below, between other nodes.
OrphanCells ==
    <<Leaf("div"), Leaf("td"),
      Element("div", <<Leaf("span"), Element("td", <<Leaf("td")>>), Leaf("form")>>),
      Element("html", <<Element("body", <<Leaf("td"), Element("p", <<Leaf("form")>>)>>)>>)>>

\* A <param> with the given attributes.
Param(attributes) == [kind |-> "node", tagName |-> "param", attributes |-> attributes]

\* <object> nodes: with params that have a name and a value, a name only, an
\* empty name, no name, no attributes, a name given twice; with children that
\* are no param; inside another <object>; without children.
ObjectNodes ==
    <<Element("object",
        <<Param([name |-> "src", value |-> "a.cab"]),
          Param([name |-> "id"]),
          Param([name |-> "", value |-> "x"]),
          Param([value |-> "y"]),
          Leaf("param"),
          Leaf("embed"),
          [kind |-> "primitive"],
          Param([name |-> "mode", value |-> ""]),
          Param([name |-> "src", value |-> "b.cab"])>>),
      Element("div",
        <<Element("object",
            <<Element("object", <<Param([name |-> "w", value |-> "1"])>>),
              Param([name |-> "h", value |-> "2"])>>)>>),
      [kind |-> "node", tagName |-> "object", attributes |-> [classid |-> "c"]]>>

\* A node with a condition.
If(condition) == [kind |-> "node", tagName |-> "If", condition |-> condition]

\* Conditions with the call quoted with ' and with ", unquoted, with blanks
\* around the argument, twice in one condition, with an argument that is one
\* quote or has unlike quotes, without argument, without parentheses, not at
\* all; below other nodes and beside other fields.
ConditionNodes ==
    <<If("session.getAttribute('role')=='admin'"),
      If("session.getAttribute(\"user\") != null && session.getAttribute(id) > 0"),
      If("session.getAttribute( 'role' )"),
      If("!session.getAttribute( cart )"),
      If("session.getAttribute(')"),
      If("session.getAttribute('a\")"),
      If("session.getAttribute()"),
      If("session.getAttribute"),
      If("request.getAttribute('x')"),
      [kind |-> "node", tagName |-> "div", attributes |-> [id |-> "d"],
       condition |-> "a && session.getAttribute(''k'')",
       children |-> <<Element("p", <<If("session.getAttribute(x(1))")>>)>>]>>

\* The number of nodes of a list, at any depth.
RECURSIVE Size(_)
Size(list) ==
    IF list = <<>> THEN 0
    ELSE (IF ~IsObject(Head(list)) THEN 0
          ELSE IF Has(Head(list), "children") THEN 1 + Size(Head(list).children)
          ELSE 1)
         + Size(Tail(list))

\* A list with a field key on every node: its number in document order,
\* counted from first.
RECURSIVE Numbered(_, _)
NumberedNode(node, number) ==
    IF ~IsObject(node) THEN node
    ELSE IF Has(node, "children")
    THEN Put([node EXCEPT !.children = Numbered(node.children, number + 1)],
             "key", number)
    ELSE Put(node, "key", number)

Numbered(list, first) ==
    [i \in 1..Len(list) |-> NumberedNode(list[i], first + Size(SubSeq(list, 1, i - 1)))]

\* The lists of nodes the passes are applied to.  Every element is a node or
\* a primitive: what a pass does on a null is seen in generateAndValidateJson.
Inputs ==
    Chains \cup AttributeTables
        \cup {StyledNodes, WideTable, OrphanCells, ObjectNodes, ConditionNodes,
              PageTree.elements, FragmentTree.elements}
        \cup {Numbered(list, 1) :
                 list \in Chains \cup {WideTable, OrphanCells, PageTree.elements}}

PassInit ==
    /\ source \in Inputs
    /\ tree = source
    /\ before = source
    /\ done = <<>>

\* Whether the k-th pass of lines 453-467 is the one to apply now: any pass
\* may be the first on a list; after a pass comes the one that follows it in
\* generateAndValidateJson; after the six of them the six run once more.
Due(k) ==
    /\ pc = "passes"
    /\ Len(done) < 2 * Len(PassOrder)
    /\ \/ done = <<>>
       \/ k > 1 /\ done # <<>> /\ done[Len(done)] = PassOrder[k - 1]
       \/ k = 1 /\ done = PassOrder

\* What the k-th pass leaves.
Applied(k, elements) ==
    /\ tree' = elements
    /\ before' = tree
    /\ done' = Append(done, PassOrder[k])
    /\ UNCHANGED source
    /\ UNCHANGED <<loopVars, execVars, walkVars>>

\* Line 453.
AttributeLowering ==
    Due(1) /\ Applied(1, ApplyPresentationalAttributesToList(tree))

\* Line 456.
AuxiliaryNodeConsolidation ==
    Due(2) /\ Applied(2, TransformObjectsInList(tree))

\* Line 459.
ExpressionRewrite ==
    Due(3) /\ Applied(3, ReplaceSessionGetAttributeInList(tree))

\* Line 462.
StructuralTableRepair ==
    Due(4) /\ Applied(4, ProcessTableStructureInList(tree))

\* Line 465.
NestingRepair ==
    Due(5) /\ Applied(5, FixInvalidNestingInList(tree, JNull))

\* Line 467.
FilterAndFlatten ==
    Due(6) /\ Applied(6, processJsonElements(tree))

-----------------------------------------------------------------------------
(* traverseAndFixInvalidNesting step by step, on a heap of nodes *)

\* The nodes are objects with an identity: heap[id] is the node id, with its
\* tagName and its children array as a sequence of ids.  rootElements is the
\* array rootRef.elements.  A frame is a forEach in progress (lines 418 and
\* 429): the array it walks (the children of node `array`, rootElements when
\* 0), the parent it passes on (0 for null), the index it stands at and the
\* length the array had when the forEach began.

\* Largest number of nodes of a tree to walk.
MaxNodes == 3

WalkTags == {"tr", "td", "form", "p", "table"}

\* The members of a set of numbers in ascending order.
Ascending(S) ==
    CHOOSE s \in [1..Cardinality(S) -> S] :
        \A i, j \in 1..Cardinality(S) : i < j => s[i] < s[j]

\* The array a frame walks.
ArrayOf(owner, nodes, root) == IF owner = 0 THEN root ELSE nodes[owner].children

\* array.indexOf(id): 0 stands for -1.
IndexOf(array, id) ==
    IF \E k \in 1..Len(array) : array[k] = id
    THEN CHOOSE k \in 1..Len(array) :
             array[k] = id /\ \A l \in 1..(k - 1) : array[l] # id
    ELSE 0

\* The nodes (0: the root list) whose array holds the node id.
Containers(id, nodes, root) ==
    {owner \in 0..Len(nodes) :
        \E k \in 1..Len(ArrayOf(owner, nodes, root)) :
            ArrayOf(owner, nodes, root)[k] = id}

\* The wrapper put into the array before the node, the node staying behind it.
Spliced(array, idx, wrapper) ==
    SubSeq(array, 1, idx - 1) \o <<wrapper>> \o SubSeq(array, idx, Len(array))

\* parent.children[idx] = wrapper (lines 361, 397 and 403); an index of -1
\* names no element of the array.
Replaced(array, idx, wrapper) ==
    IF idx = 0 THEN array ELSE [array EXCEPT ![idx] = wrapper]

\* A node a fix makes.
Made(tag, child) == [tagName |-> tag, children |-> <<child>>, made |-> TRUE]

\* The heap and the root list once the rules of nestingRules ran on the node
\* id with the parent given (lines 423-427).  The fixes of p > form and
\* table > form stand inside if (parent.parent) and no node has a parent
\* field: they change nothing.
RulesApplied(id, parent, nodes, root) ==
    IF parent # 0 /\ nodes[parent].tagName = "tr" /\ nodes[id].tagName = "form"
    THEN [nodes |-> Append([nodes EXCEPT ![parent].children =
                               Replaced(@, IndexOf(@, id), Len(nodes) + 1)],
                           Made("td", id)),
          root |-> root]
    ELSE IF nodes[id].tagName = "td" /\ (parent = 0 \/ nodes[parent].tagName # "tr")
    THEN IF parent # 0
         THEN [nodes |-> [nodes EXCEPT ![parent].children =
                             Replaced(@, IndexOf(@, id), Len(nodes) + 2)]
                         \o <<Made("tr", id), Made("table", Len(nodes) + 1)>>,
               root |-> root]
         ELSE [nodes |-> nodes \o <<Made("tr", id), Made("table", Len(nodes) + 1)>>,
               root |-> Replaced(root, IndexOf(root, id), Len(nodes) + 2)]
    ELSE [nodes |-> nodes, root |-> root]

\* The tree below a node of the heap, as a JSON value.
RECURSIVE Unfold(_, _)
UnfoldList(array, nodes) == [k \in 1..Len(array) |-> Unfold(array[k], nodes)]

Unfold(id, nodes) ==
    IF nodes[id].made
    THEN [kind |-> "node", tagName |-> nodes[id].tagName, attributes |-> EmptyObject,
          children |-> UnfoldList(nodes[id].children, nodes)]
    ELSE [kind |-> "node", tagName |-> nodes[id].tagName,
          children |-> UnfoldList(nodes[id].children, nodes)]

\* The call of line 465 on a tree of up to MaxNodes nodes: every shape, the
\* nodes numbered in document order, every tagging by WalkTags.
WalkInit ==
    /\ \E n \in 1..MaxNodes :
          \E tags \in [1..n -> WalkTags] :
              \E up \in [1..n -> 0..(n - 1)] :
                  /\ \A i \in 1..n : up[i] < i
                  /\ \A i, j \in 1..n : (i < j /\ up[j] < i) => up[j] <= up[i]
                  /\ heap = [i \in 1..n |->
                                [tagName |-> tags[i],
                                 children |-> Ascending({j \in 1..n : up[j] = i}),
                                 made |-> FALSE]]
                  /\ rootElements = Ascending({j \in 1..n : up[j] = 0})
    /\ frames = <<[array |-> 0, parent |-> 0, index |-> 1, length |-> Len(rootElements)]>>
    /\ evaluated = <<>>

\* The frame on top of the stack.
Top == frames[Len(frames)]

\* Lines 415-430 for the node id: the rules run on it with the parent of the
\* frame, then a forEach over its children begins with the node as parent.
Visit(id, after) ==
    /\ evaluated' = Append(evaluated,
                           [node |-> id, parent |-> Top.parent,
                            containers |-> Containers(id, heap, rootElements)])
    /\ heap' = after.nodes
    /\ rootElements' = after.root
    /\ frames' = [frames EXCEPT ![Len(frames)].index = @ + 1]
                 \o <<[array |-> id, parent |-> id, index |-> 1,
                       length |-> Len(heap[id].children)]>>

\* One round of a forEach: traverseAndFixInvalidNesting is called on the
\* element the array holds at the index.
Evaluate ==
    /\ frames # <<>>
    /\ Top.index <= Top.length
    /\ Visit(ArrayOf(Top.array, heap, rootElements)[Top.index],
             RulesApplied(ArrayOf(Top.array, heap, rootElements)[Top.index],
                          Top.parent, heap, rootElements))
    /\ UNCHANGED <<loopVars, execVars, passVars>>

\* A forEach is through with its array.
Return ==
    /\ frames # <<>>
    /\ Top.index > Top.length
    /\ frames' = SubSeq(frames, 1, Len(frames) - 1)
    /\ UNCHANGED <<heap, rootElements, evaluated>>
    /\ UNCHANGED <<loopVars, execVars, passVars>>

-----------------------------------------------------------------------------
(* Specifications *)

Init == LoopInit /\ ExecIdle /\ PassIdle /\ WalkIdle

Next ==
    \/ AttemptReturns(TryBlock(currentContent))
    \/ AttemptFails(TryBlock(currentContent))
    \/ AttemptExhausts(TryBlock(currentContent))
    \/ Regenerated
    \/ RegenerationFails

Spec == Init /\ [][Next]_vars

ExecNext ==
    \/ NoToolCalls
    \/ MapTasks
    \/ StartTask
    \/ RaceSettles
    \/ LoopEnds
    \/ AllSettled
    \/ \E i \in 1..Len(toolCalls) : RepairReturns(i)
    \/ \E i \in 1..Len(toolCalls) : RepairFails(i)
    \/ \E i \in 1..Len(toolCalls) : ToolReturns(i)
    \/ \E i \in 1..Len(toolCalls) : ToolThrows(i)
    \/ \E i \in 1..Len(toolCalls) : Finally(i)
    \/ PromptPushed

ExecSpec == ExecStart /\ [][ExecNext]_vars

\* handleToolCalls with the delete route answering while it awaits.
DeleteNext ==
    \/ ExecNext
    \/ DeleteSession
    \/ \E i \in 1..Len(toolCalls) : FinallyRejected(i)
    \/ AllRejects

DeleteSpec == ExecStart /\ [][DeleteNext]_vars

PassStart ==
    /\ pc = "passes"
    /\ attempt = 0
    /\ currentContent = [garbage |-> 1]
    /\ history = <<>>
    /\ outcome = [kind |-> "pending"]
    /\ passLog = <<>>
    /\ parseLog = <<>>
    /\ requests = <<>>
    /\ ExecIdle
    /\ PassInit
    /\ WalkIdle

PassNext ==
    \/ AttributeLowering
    \/ AuxiliaryNodeConsolidation
    \/ ExpressionRewrite
    \/ StructuralTableRepair
    \/ NestingRepair
    \/ FilterAndFlatten

PassSpec == PassStart /\ [][PassNext]_vars

\* The walk of Nesting Repair on its own; source keeps the tree it began with.
WalkStart ==
    /\ LoopIdle
    /\ ExecIdle
    /\ WalkInit
    /\ source = UnfoldList(rootElements, heap)
    /\ tree = source
    /\ before = source
    /\ done = <<>>

WalkNext ==
    \/ Evaluate
    \/ Return

WalkSpec == WalkStart /\ [][WalkNext]_vars

-----------------------------------------------------------------------------
(* Properties of generateAndValidateJson *)

\* The six calls of lines 453-467 written out as one composition.
Normalize(elements) ==
    processJsonElements(
        FixInvalidNestingInList(
            ProcessTableStructureInList(
                ReplaceSessionGetAttributeInList(
                    TransformObjectsInList(
                        ApplyPresentationalAttributesToList(elements)))),
            JNull))

\* The passes attempt k called, in the order of the calls.
PassesOf(k) ==
    LET entries == SelectSeq(passLog, LAMBDA e : e.attempt = k)
    IN  [i \in 1..Len(entries) |-> entries[i].pass]

\* Whether the k-th candidate was text JSON.parse accepts.
Parsed(k) == Has(parseLog[k], "json")

\* C1: whenever the function has returned a result, the attempt that returned
\* called each of the six passes once, in the order Attribute Lowering,
\* Auxiliary-Node Consolidation, Expression Rewrite, Structural Table Repair,
\* Nesting Repair, Filter & Flatten, on a candidate that parsed, and the result
\* is the serialization of that composition; no attempt whose candidate did
\* not parse called any pass.
C1_SixPassesOnceInOrder ==
    /\ pc = "returned" =>
          /\ Parsed(attempt)
          /\ parseLog[attempt] = currentContent
          /\ PassesOf(attempt) =
                 <<"traverseAndApplyPresentationalAttributes",
                   "traverseAndTransformObjects",
                   "traverseAndReplaceSessionGetAttribute",
                   "traverseAndProcessTableStructure",
                   "traverseAndFixInvalidNesting",
                   "processJsonElements">>
          /\ Has(currentContent.json, "elements") =>
                 outcome.value =
                     [json |-> [currentContent.json EXCEPT
                                   !.elements = Normalize(currentContent.json.elements)]]
    /\ \A k \in 1..Len(parseLog) : ~Parsed(k) => PassesOf(k) = <<>>

\* A result returned at the second attempt, after a first candidate that did
\* not parse, for a page whose every pass has something to do.
C1_Witness ==
    /\ pc = "returned"
    /\ attempt = 2
    /\ ~Parsed(1)
    /\ currentContent = [json |-> PageTree]
    /\ outcome.value # currentContent

\* C2: when the first two candidates do not parse and the third parses, the
\* function returns the normalized third candidate after exactly two
\* regeneration requests.
C2_ThirdCandidateReturned ==
    (Len(parseLog) = 3 /\ ~Parsed(1) /\ ~Parsed(2) /\ Parsed(3)) =>
        /\ pc = "returned"
        /\ outcome.kind = "returned"
        /\ Len(requests) = 2

\* C3: when all three candidates fail to parse, the function raises the
\* exhaustion error after exactly three parse attempts and exactly two
\* regeneration requests; there is never a fourth attempt and nothing is
\* returned.
C3_ExhaustedAfterThree ==
    /\ attempt <= maxAttempts
    /\ Len(parseLog) <= maxAttempts
    /\ (Len(parseLog) = maxAttempts /\ \A k \in 1..maxAttempts : ~Parsed(k)) =>
          /\ pc = "raised"
          /\ outcome = [kind |-> "raised", error |-> ExhaustedError]
          /\ attempt = maxAttempts
          /\ Len(requests) = maxAttempts - 1

\* Three candidates that did not parse, and the error raised.
C3_Witness ==
    /\ Len(parseLog) = maxAttempts
    /\ \A k \in 1..maxAttempts : ~Parsed(k)
    /\ pc = "raised"
    /\ Len(requests) = 2

\* C4: every candidate that parses is the last one tried and ends in Success
\* on its own attempt: the function returns, no Failure is recorded for it and
\* no regeneration is requested after it.
C4_ParsedCandidateSucceeds ==
    \A k \in 1..Len(parseLog) :
        Parsed(k) =>
            /\ k = Len(parseLog)
            /\ pc = "returned"
            /\ Len(requests) = k - 1
            /\ Len(PassesOf(k)) = Len(PassOrder)

\* The attempts that ended in the catch block.
Failed(k) == TryBlock(parseLog[k]).thrown

\* C5: each failed attempt k < 3 appended exactly two records to the history,
\* the candidate as an assistant record and then the corrective instruction
\* as a user record, and the request that followed carried the history with
\* both; a failure at attempt 3 appended nothing and requested nothing.
C5_FailureAppendsTwoRecords ==
    /\ Len(requests) =
          Cardinality({k \in 1..Len(parseLog) : k < maxAttempts /\ Failed(k)})
    /\ Len(history) = 3 + 2 * Len(requests)
    /\ SubSeq(history, 1, 3) = InitialHistory(history[3].content)
    /\ \A k \in 1..Len(requests) :
          /\ requests[k].attempt = k
          /\ Failed(k)
          /\ history[2 + 2 * k] = [role |-> "assistant", content |-> parseLog[k]]
          /\ history[3 + 2 * k] = [role |-> "user", content |-> CorrectiveInstruction]
          /\ requests[k].messages = SubSeq(history, 1, 3 + 2 * k)

\* Three failures: four records appended by the first two, none by the third.
C5_Witness ==
    /\ Len(parseLog) = maxAttempts
    /\ \A k \in 1..maxAttempts : Failed(k)
    /\ pc = "raised"
    /\ Len(history) = 7
    /\ Len(requests) = 2

\* C6: a run that ended either returned a result or raised the exhaustion
\* error.
C6_OnlyExhaustionRaises ==
    pc \in {"returned", "raised"} =>
        \/ outcome.kind = "returned"
        \/ outcome = [kind |-> "raised", error |-> ExhaustedError]

-----------------------------------------------------------------------------
(* Properties of the bounded executor *)

\* The tasks that were started and whose promise has not settled.
InFlight ==
    {i \in 1..Len(toolCalls) : task[i].state \in {"repairing", "calling", "fulfilled"}}

\* The tool calls in the order in which their tasks pushed a record.
CompletionOrder ==
    [k \in 1..Len(toolLog) |->
        CHOOSE i \in 1..Len(toolCalls) : toolCalls[i].id = toolLog[k].tool_call_id]

\* C7: at every instant the tasks started and not yet settled are at most
\* MAX_CONCURRENT, and they are the promises of the Set executing.
C7_AtMostLimitInFlight ==
    /\ Cardinality(InFlight) <= MAX_CONCURRENT
    /\ InFlight = executing

\* Two tasks in flight and a third one waiting for admission.
C7_Witness ==
    /\ Cardinality(InFlight) = MAX_CONCURRENT
    /\ epc = "racing"
    /\ nextTask <= Len(toolCalls)
    /\ \A i \in InFlight : task[i].state \in {"repairing", "calling"}

C9_ResultsInSubmissionOrder ==
    epc = "resolved" =>
        /\ Len(execResult.value) = Len(toolCalls)
        /\ \A i \in 1..Len(toolCalls) :
              /\ execResult.value[i].toolCallId = toolCalls[i].id
              /\ execResult.value[i].toolName = toolCalls[i].function.name
              /\ execResult.value[i] = task[i].value

\* The tasks completed in an order that is not the order of submission.
C9_Witness ==
    /\ epc = "resolved"
    /\ Len(toolCalls) = 3
    /\ CompletionOrder = <<2, 3, 1>>

\* C10: tasks are started in the order of submission; the for loop stands
\* before the start of a task only when fewer than MAX_CONCURRENT tasks are in
\* flight, and it waits only while none of the promises it raced has settled:
\* once one of them has, the loop can go on, whatever the others do.
C10_BlockingAdmission ==
    /\ results = [k \in 1..(nextTask - 1) |-> k]
    /\ \A i \in 1..Len(toolCalls) : task[i].state = "unstarted" <=> i >= nextTask
    /\ (epc = "loop" /\ nextTask <= Len(toolCalls)) =>
          /\ Cardinality(InFlight) < MAX_CONCURRENT
          /\ ENABLED StartTask
    /\ epc = "racing" => Cardinality(raced) = MAX_CONCURRENT
    /\ (epc = "racing" /\ \E p \in raced : task[p].state = "settled") =>
          ENABLED RaceSettles

\* The third task is admitted after the second settled, while the first is
\* still in flight.
C10_Witness ==
    /\ Len(toolCalls) = 3
    /\ task[1].state = "calling"
    /\ task[2].state = "settled"
    /\ task[3].state \in {"repairing", "calling"}

-----------------------------------------------------------------------------
(* Properties of the passes *)

\* The pass applied last.
Latest == IF done = <<>> THEN "none" ELSE done[Len(done)]

\* Whether a node with a tag among tags stands in the list, at any depth.
RECURSIVE HasTagIn(_, _)
HasTagIn(list, tags) ==
    \E i \in 1..Len(list) :
        /\ IsObject(list[i])
        /\ \/ Has(list[i], "tagName") /\ list[i].tagName \in tags
           \/ Has(list[i], "children") /\ HasTagIn(list[i].children, tags)

\* C11: what processJsonElements returns holds, at any depth, no node tagged
\* meta, title, link, script, noscript, style, html, head or body.
C11_NoRemovedOrUnwrappedTag ==
    Latest = "processJsonElements" =>
        ~HasTagIn(tree, {"meta", "title", "link", "script", "noscript", "style",
                         "html", "head", "body"})

\* processJsonElements applied to a list that holds a body and a script below
\* a node that stays.
C11_Witness ==
    /\ done = <<"processJsonElements">>
    /\ HasTagIn(before, {"body"})
    /\ HasTagIn(before, {"script"})
    /\ tree # <<>>

\* A td or a th.
IsCell(value) == TagIs(value, "td") \/ TagIs(value, "th")

\* A table with children, the first of which is no tbody.
LacksTbody(value) ==
    /\ TagIs(value, "table")
    /\ Has(value, "children")
    /\ value.children # <<>>
    /\ ~TagIs(value.children[1], "tbody")

\* A value without what stands below it and without its attributes.
Shell(value) ==
    IF IsObject(value)
    THEN [k \in DOMAIN value \ {"children", "attributes"} |-> value[k]]
    ELSE value

\* Whether, post being what Structural Table Repair made of the list pre,
\* every table of pre that lacked a tbody has, in post, a tbody as its one
\* child, under which the children the table had stand one by one in their
\* order.  inRow says the two lists are the children of a tr, where a child
\* that is no cell stands, in post, as the sole child of a td made for it.
RECURSIVE TablesWrapped(_, _, _)
RECURSIVE TablesWrappedBelow(_, _)
TablesWrapped(inRow, pre, post) ==
    /\ Len(post) = Len(pre)
    /\ \A i \in 1..Len(pre) :
          LET moved == inRow /\ ~IsCell(pre[i]) IN
          /\ moved => Has(post[i], "children") /\ Len(post[i].children) = 1
          /\ TablesWrappedBelow(pre[i], IF moved THEN post[i].children[1] ELSE post[i])

\* The same of one value of pre and the value that stands for it in post.
TablesWrappedBelow(a, b) ==
    /\ Shell(b) = Shell(a)
    /\ (IsObject(a) /\ Has(a, "children")) =>
          /\ Has(b, "children")
          /\ IF LacksTbody(a)
             THEN /\ Len(b.children) = 1
                  /\ Shell(b.children[1]) = [kind |-> "node", tagName |-> "tbody"]
                  /\ Has(b.children[1], "children")
                  /\ TablesWrapped(FALSE, a.children, b.children[1].children)
             ELSE TablesWrapped(TagIs(a, "tr"), a.children, b.children)

\* C12: after Structural Table Repair a table whose first child was no tbody
\* has exactly one child, a tbody, whose children are the children the table
\* had, in the same order.
C12_TbodyHoldsTheChildren ==
    Latest = "traverseAndProcessTableStructure" => TablesWrapped(FALSE, before, tree)

\* The repair applied to a table of three children, the first a tr.
C12_Witness ==
    /\ done = <<"traverseAndProcessTableStructure">>
    /\ before = WideTable
    /\ Len(tree[1].children) = 1
    /\ Len(tree[1].children[1].children) = 3

\* Whether every child of every tr of the list, at any depth, is a td or a th.
RECURSIVE RowsHoldCells(_)
RowsHoldCells(list) ==
    \A i \in 1..Len(list) :
        (IsObject(list[i]) /\ Has(list[i], "children")) =>
            /\ TagIs(list[i], "tr") => \A j \in 1..Len(list[i].children) :
                                           IsCell(list[i].children[j])
            /\ RowsHoldCells(list[i].children)

\* The td of lines 268-272 around a child.
HiddenCell(cell) ==
    /\ Shell(cell) = [kind |-> "node", tagName |-> "td"]
    /\ Has(cell, "attributes")
    /\ cell.attributes = [style |-> [obj |-> [display |-> "none"]]]
    /\ Has(cell, "children")
    /\ Len(cell.children) = 1

\* Whether, post being what Structural Table Repair made of the list pre,
\* every child of a tr of pre stands in post at the index it had: itself when
\* it is a td or a th, and as the sole child of a hidden td when it is not.
\* inRow says the two lists are the children of a tr.
RECURSIVE RowsRepaired(_, _, _)
RECURSIVE RowsRepairedBelow(_, _)
RowsRepaired(inRow, pre, post) ==
    /\ Len(post) = Len(pre)
    /\ \A i \in 1..Len(pre) :
          IF inRow /\ ~IsCell(pre[i])
          THEN HiddenCell(post[i]) /\ RowsRepairedBelow(pre[i], post[i].children[1])
          ELSE RowsRepairedBelow(pre[i], post[i])

RowsRepairedBelow(a, b) ==
    /\ Shell(b) = Shell(a)
    /\ (IsObject(a) /\ Has(a, "children")) =>
          RowsRepaired(TagIs(a, "tr"), a.children,
                       IF LacksTbody(a) THEN b.children[1].children ELSE b.children)

\* C13: after Structural Table Repair, and from then on through the passes
\* that follow it, every child of every tr is a td or a th; the repair puts a
\* child that was neither at the index it had, inside a td of style
\* display none whose sole child it is.
C13_RowsHoldOnlyCells ==
    /\ (\E k \in 1..Len(done) : done[k] = "traverseAndProcessTableStructure") =>
           RowsHoldCells(tree)
    /\ Latest = "traverseAndProcessTableStructure" => RowsRepaired(FALSE, before, tree)

\* The six passes run on a table whose first row holds a form, a td, a text
\* and a th.
C13_Witness ==
    /\ done = PassOrder
    /\ source = WideTable
    /\ ~RowsHoldCells(source)
    /\ Len(tree[1].children[1].children[1].children) = 4
    /\ HiddenCell(tree[1].children[1].children[1].children[1])
    /\ tree[1].children[1].children[1].children[1].children[1].tagName = "form"

\* Whether every table of the list, at any depth, that has children has a
\* tbody as its first child.
RECURSIVE TablesStartWithTbody(_)
TablesStartWithTbody(list) ==
    \A i \in 1..Len(list) :
        (IsObject(list[i]) /\ Has(list[i], "children")) =>
            /\ ~LacksTbody(list[i])
            /\ TablesStartWithTbody(list[i].children)

\* C14: in what the six passes return, every table that has children, taken
\* from the input or made by a pass, has a tbody as its first child.
C14_EveryTableStartsWithTbody ==
    done = PassOrder => TablesStartWithTbody(tree)

\* The style property each entry of attributeToStyleMap names (cssProperty of
\* lines 108-128; borderSpacing of line 119 for cellspacing).
cssProperty(attrName) ==
    CASE attrName = "align" -> "textAlign"
      [] attrName = "valign" -> "verticalAlign"
      [] attrName = "bgcolor" -> "backgroundColor"
      [] attrName = "background" -> "backgroundImage"
      [] attrName = "width" -> "width"
      [] attrName = "height" -> "height"
      [] attrName = "border" -> "border"
      [] attrName = "nowrap" -> "whiteSpace"
      [] attrName = "cellspacing" -> "borderSpacing"
      [] attrName = "color" -> "color"
      [] attrName = "face" -> "fontFamily"
      [] attrName = "size" -> "fontSize"

\* The value each entry of attributeToStyleMap makes of attrValue: what its
\* handler computes, its fixedValue, or attrValue itself.
TransformedValue(attrName, attrValue) ==
    IF attrName \in {"background", "width", "height", "border", "size"}
    THEN HandlerValue(attrName, attrValue)
    ELSE IF attrName = "nowrap" THEN "nowrap"
    ELSE IF attrName = "cellspacing" THEN addPxIfNeeded(attrValue)
    ELSE attrValue

\* Whether the attributes after hold, for every legacy attribute of the
\* attributes before, the transformed value under its style property, the
\* attribute itself being gone.
AttributesLowered(attrsBefore, attrsAfter) ==
    \A attrName \in DOMAIN attrsBefore \cap LegacyAttributes :
        /\ ~Has(attrsAfter, attrName)
        /\ Has(attrsAfter, "style")
        /\ Has(attrsAfter.style, "obj")
        /\ Has(attrsAfter.style.obj, cssProperty(attrName))
        /\ attrsAfter.style.obj[cssProperty(attrName)] =
               TransformedValue(attrName, attrsBefore[attrName])

\* The same of every node of the list pre, at any depth, post being what
\* Attribute Lowering made of pre.
RECURSIVE LoweredIn(_, _)
LoweredIn(pre, post) ==
    /\ Len(post) = Len(pre)
    /\ \A i \in 1..Len(pre) :
          IsObject(pre[i]) =>
              /\ Has(pre[i], "attributes") =>
                     /\ Has(post[i], "attributes")
                     /\ AttributesLowered(pre[i].attributes, post[i].attributes)
              /\ Has(pre[i], "children") =>
                     /\ Has(post[i], "children")
                     /\ LoweredIn(pre[i].children, post[i].children)

\* C15: Attribute Lowering stores, for every legacy attribute of the mapping
\* table a node has, the transformed value under its style property and
\* removes the attribute: width "100" with align "left" gives the style
\* {width: "100px", textAlign: "left"}.
C15_LegacyAttributesStoredAsStyle ==
    Latest = "traverseAndApplyPresentationalAttributes" => LoweredIn(before, tree)

\* Whether some node of the list, at any depth, has an attribute among names.
RECURSIVE HasAttributeIn(_, _)
HasAttributeIn(list, names) ==
    \E i \in 1..Len(list) :
        /\ IsObject(list[i])
        /\ \/ Has(list[i], "attributes") /\ DOMAIN list[i].attributes \cap names # {}
           \/ Has(list[i], "children") /\ HasAttributeIn(list[i].children, names)

\* C16: after Attribute Lowering no node at any depth has an attribute among
\* align, valign, bgcolor, background, width, height, border, nowrap,
\* cellspacing, cellpadding, color, face, size.
C16_NoLegacyAttributeLeft ==
    Latest = "traverseAndApplyPresentationalAttributes" =>
        ~HasAttributeIn(tree, {"align", "valign", "bgcolor", "background", "width",
                               "height", "border", "nowrap", "cellspacing",
                               "cellpadding", "color", "face", "size"})

\* Whether the attributes after hold every property of the style a node had,
\* with the value it had.
StyleKept(existing, attrsAfter) ==
    DOMAIN existing # {} =>
        /\ Has(attrsAfter, "style")
        /\ Has(attrsAfter.style, "obj")
        /\ \A property \in DOMAIN existing :
               /\ Has(attrsAfter.style.obj, property)
               /\ attrsAfter.style.obj[property] = existing[property]

\* The same of every node of the list pre, at any depth, post being what
\* Attribute Lowering made of pre.
RECURSIVE StylesKeptIn(_, _)
StylesKeptIn(pre, post) ==
    /\ Len(post) = Len(pre)
    /\ \A i \in 1..Len(pre) :
          IsObject(pre[i]) =>
              /\ Has(pre[i], "attributes") =>
                     /\ Has(post[i], "attributes")
                     /\ StyleKept(ExistingStyle(pre[i].attributes), post[i].attributes)
              /\ Has(pre[i], "children") =>
                     /\ Has(post[i], "children")
                     /\ StylesKeptIn(pre[i].children, post[i].children)

\* C17: Attribute Lowering keeps every property of the style a node already
\* had, string or map, with its value, and adds the derived properties beside
\* them: no derived property overwrites one the style had.
C17_ExistingStyleNotOverwritten ==
    Latest = "traverseAndApplyPresentationalAttributes" => StylesKeptIn(before, tree)

\* Whether some node tagged child is a direct child of a node with a tag among
\* parents, at any depth of the list.
RECURSIVE HasChildUnder(_, _, _)
HasChildUnder(list, child, parents) ==
    \E i \in 1..Len(list) :
        /\ IsObject(list[i])
        /\ Has(list[i], "children")
        /\ \/ /\ Has(list[i], "tagName")
              /\ list[i].tagName \in parents
              /\ \E j \in 1..Len(list[i].children) : TagIs(list[i].children[j], child)
           \/ HasChildUnder(list[i].children, child, parents)

\* C18: after Nesting Repair, and in what the six passes return, no form is a
\* direct child of a tr, a p or a table.
C18_NoFormUnderRowParagraphTable ==
    (Latest = "traverseAndFixInvalidNesting" \/ done = PassOrder) =>
        ~HasChildUnder(tree, "form", {"tr", "p", "table"})

\* Whether every td of the list, at any depth, is the child of a tr.  inRow
\* says the list is the children of a tr.
RECURSIVE CellsInRows(_, _)
CellsInRows(inRow, list) ==
    \A i \in 1..Len(list) :
        IsObject(list[i]) =>
            /\ TagIs(list[i], "td") => inRow
            /\ Has(list[i], "children") =>
                   CellsInRows(TagIs(list[i], "tr"), list[i].children)

\* A node of the given tag that a rule made around one child.
Wrapper(value, tag) ==
    /\ Shell(value) = [kind |-> "node", tagName |-> tag]
    /\ Has(value, "children")
    /\ Len(value.children) = 1

\* Whether, post being what Nesting Repair made of the list pre, every td of
\* pre that was no child of a tr stands in post as the sole child of a tr that
\* is the sole child of a table, the table standing at the index the td had.
\* inRow says the two lists are the children of a tr, where a form stands in
\* post as the sole child of a td made for it.
RECURSIVE OrphansWrapped(_, _, _)
RECURSIVE OrphansWrappedBelow(_, _)
OrphansWrapped(inRow, pre, post) ==
    /\ Len(post) = Len(pre)
    /\ \A i \in 1..Len(pre) :
          IF TagIs(pre[i], "td") /\ ~inRow
          THEN /\ Wrapper(post[i], "table")
               /\ Wrapper(post[i].children[1], "tr")
               /\ OrphansWrappedBelow(pre[i], post[i].children[1].children[1])
          ELSE IF TagIs(pre[i], "form") /\ inRow
          THEN /\ Wrapper(post[i], "td")
               /\ OrphansWrappedBelow(pre[i], post[i].children[1])
          ELSE OrphansWrappedBelow(pre[i], post[i])

OrphansWrappedBelow(a, b) ==
    /\ Shell(b) = Shell(a)
    /\ (IsObject(a) /\ Has(a, "children")) =>
          /\ Has(b, "children")
          /\ OrphansWrapped(TagIs(a, "tr"), a.children, b.children)

\* C19: after Nesting Repair every td is the child of a tr; a td that was the
\* child of another node, or stood at the top level, is replaced where it
\* stood by a table > tr whose tr has the td as its sole child.
C19_EveryCellInARow ==
    Latest = "traverseAndFixInvalidNesting" =>
        /\ CellsInRows(FALSE, tree)
        /\ OrphansWrapped(FALSE, before, tree)

\* Nesting Repair applied to a list with a td at the top level, a td below a
\* div and a td below that td.
C19_Witness ==
    /\ done = <<"traverseAndFixInvalidNesting">>
    /\ before = OrphanCells
    /\ ~CellsInRows(FALSE, before)
    /\ tree[2] = [kind |-> "node", tagName |-> "table", attributes |-> EmptyObject,
                  children |-> <<[kind |-> "node", tagName |-> "tr",
                                  attributes |-> EmptyObject,
                                  children |-> <<Leaf("td")>>]>>]
    /\ tree[3].children[2].tagName = "table"

\* C20: the six passes run on what the six passes returned return it
\* unchanged: pipeline(pipeline(T)) = pipeline(T) for every list T.
C20_PipelineIdempotent ==
    done = PassOrder \o PassOrder => tree = Normalize(source)

\* Whether the i-th child is a param that gives an entry: a param with
\* attributes and a name that is not empty.
GivesEntry(children, i) ==
    /\ TagIs(children[i], "param")
    /\ Has(children[i], "attributes")
    /\ Has(children[i].attributes, "name")
    /\ children[i].attributes.name # ""

\* Whether params is the mapping of names to values of the direct param
\* children: one entry per name, the value of the last param of that name,
\* the empty string when that param has no value.
IsParamsOf(params, children) ==
    /\ DOMAIN params = {children[i].attributes.name :
                            i \in {j \in 1..Len(children) : GivesEntry(children, j)}}
    /\ \A i \in 1..Len(children) :
          (/\ GivesEntry(children, i)
           /\ \A j \in (i + 1)..Len(children) :
                  GivesEntry(children, j) =>
                      children[j].attributes.name # children[i].attributes.name)
          => params[children[i].attributes.name] =
                 IF Has(children[i].attributes, "value")
                 THEN children[i].attributes.value ELSE ""

\* Whether, post being what Auxiliary-Node Consolidation made of the list
\* pre, every <object> of pre stands in post as an ActiveXPlaceholder
\* component whose one child holds the params of the children it had.
RECURSIVE ObjectsConsolidated(_, _)
ObjectsConsolidated(pre, post) ==
    /\ Len(post) = Len(pre)
    /\ \A i \in 1..Len(pre) :
          IF TagIs(pre[i], "object")
          THEN /\ DOMAIN post[i] = DOMAIN pre[i] \cup {"isComponent", "children"}
               /\ post[i].tagName = "ActiveXPlaceholder"
               /\ post[i].isComponent = TRUE
               /\ \A k \in DOMAIN pre[i] \ {"tagName", "isComponent", "children"} :
                      post[i][k] = pre[i][k]
               /\ Len(post[i].children) = 1
               /\ DOMAIN post[i].children[1] = {"kind", "params"}
               /\ IsParamsOf(post[i].children[1].params,
                             IF Has(pre[i], "children") THEN pre[i].children ELSE <<>>)
          ELSE /\ Shell(post[i]) = Shell(pre[i])
               /\ (IsObject(pre[i]) /\ Has(pre[i], "children")) =>
                      /\ Has(post[i], "children")
                      /\ ObjectsConsolidated(pre[i].children, post[i].children)

\* C21: after Auxiliary-Node Consolidation no node is tagged object: each
\* node that was is tagged ActiveXPlaceholder, has isComponent true and has
\* one child, a wrapper holding the name -> value mapping of its direct param
\* children, a missing value giving "" and an empty or missing name no entry.
C21_ObjectsBecomePlaceholders ==
    Latest = "traverseAndTransformObjects" =>
        /\ ~HasTagIn(tree, {"object"})
        /\ ObjectsConsolidated(before, tree)

\* The pass applied to <object> nodes whose params have no value, no name,
\* an empty name, and a name given twice.
C21_Witness ==
    /\ done = <<"traverseAndTransformObjects">>
    /\ before = ObjectNodes
    /\ tree[1].children = <<[kind |-> "node",
                             params |-> [src |-> "b.cab", id |-> "", mode |-> ""]]>>
    /\ tree[2].children[1].children[1].params = [h |-> "2"]
    /\ tree[3].children[1].params = EmptyObject

\* A text without one layer of surrounding matching quotes, when it has one.
QuotesStripped(text) ==
    IF /\ Len(text) >= 2
       /\ SubSeq(text, 1, 1) \in {"'", "\""}
       /\ SubSeq(text, Len(text), Len(text)) = SubSeq(text, 1, 1)
    THEN SubSeq(text, 2, Len(text) - 1)
    ELSE text

\* The key made of an argument: the argument without its quotes, the blanks
\* around it being taken off first when trimmed says so.
KeyOf(arg, trimmed) == QuotesStripped(IF trimmed THEN Trim(arg) ELSE arg)

\* A condition with every session.getAttribute(<arg>) replaced, from left to
\* right, by sessionStorage.getItem('<key>'); <arg> runs up to the next ")".
RECURSIVE Rewritten(_, _)
Rewritten(condition, trimmed) ==
    LET call == "session.getAttribute("
        at == IndexOfFrom(condition, call, 1)
        close == IF at = 0 THEN 0 ELSE IndexOfFrom(condition, ")", at + Len(call))
    IN  IF close = 0 THEN condition
        ELSE SubSeq(condition, 1, at - 1)
             \o "sessionStorage.getItem('"
             \o KeyOf(SubSeq(condition, at + Len(call), close - 1), trimmed)
             \o "')"
             \o Rewritten(SubSeq(condition, close + 1, Len(condition)), trimmed)

\* Whether, post being what Expression Rewrite made of the list pre, every
\* node has its condition rewritten and its other fields as they were.
RECURSIVE ConditionsRewritten(_, _, _)
ConditionsRewritten(pre, post, trimmed) ==
    /\ Len(post) = Len(pre)
    /\ \A i \in 1..Len(pre) :
          IF ~IsObject(pre[i]) THEN post[i] = pre[i]
          ELSE /\ DOMAIN post[i] = DOMAIN pre[i]
               /\ \A k \in DOMAIN pre[i] \ {"condition", "children"} :
                      post[i][k] = pre[i][k]
               /\ Has(pre[i], "condition") =>
                      post[i].condition = Rewritten(pre[i].condition, trimmed)
               /\ Has(pre[i], "children") =>
                      ConditionsRewritten(pre[i].children, post[i].children, trimmed)

-----------------------------------------------------------------------------
(* Properties of the tasks of handleToolCalls *)

\* The tool calls that name a tool outside availableTools.
Unknown == {i \in 1..Len(toolCalls) : toolCalls[i].function.name \notin availableTools}

\* The records of the history that carry the identifier of the i-th tool call.
RecordsOf(i) == {k \in 1..Len(toolLog) : toolLog[k].tool_call_id = toolCalls[i].id}

\* C23: a tool call that names an unknown tool ends at once as an error
\* record: its arguments are neither parsed nor repaired, no tool is called
\* for it, one error record is appended to the history, and the other tool
\* calls of the batch still run.
C23_UnknownToolFailsAtOnce ==
    /\ \A i \in Unknown :
          /\ callCount[i] = NoCalls
          /\ task[i].state \in {"unstarted", "fulfilled", "settled"}
          /\ task[i].state # "unstarted" =>
                /\ DOMAIN task[i].value = {"toolName", "toolCallId", "error"}
                /\ Cardinality(RecordsOf(i)) = 1
                /\ \A k \in RecordsOf(i) : Has(toolLog[k].content.json, "error")
    /\ (epc = "resolved" /\ Unknown # {}) =>
          \A j \in 1..Len(toolCalls) \ Unknown :
              /\ task[j].state = "settled"
              /\ callCount[j].JSON5parse = 1
              /\ Cardinality(RecordsOf(j)) = 1

\* The first tool call names an unknown tool, the two after it ran: one
\* called its tool and has a result, the other went through the repair.
C23_Witness ==
    /\ epc = "resolved"
    /\ Len(toolCalls) = 3
    /\ 1 \in Unknown
    /\ toolCalls[1].function.arguments = [garbage |-> 1]
    /\ "result" \in DOMAIN execResult.value[2]
    /\ callCount[3].fixJsonWithLlm = 1
    /\ toolLog[1].tool_call_id = toolCalls[1].id

\* The tool calls that name a known tool with arguments JSON5.parse rejects.
Malformed ==
    {i \in 1..Len(toolCalls) :
        /\ toolCalls[i].function.name \in availableTools
        /\ ~JSON5parse(toolCalls[i].function.arguments).ok}

\* Whether the task of the i-th tool call has returned.
Returned(i) == task[i].state \in {"fulfilled", "settled"}

\* C24: a tool call whose arguments fail JSON5.parse makes one repair request
\* and parses the repaired text once; when the request or that parse fails the
\* call ends as an error record and its tool is never called, and the other
\* tool calls of the batch are neither stopped nor failed by it.
C24_OneRepairThenErrorRecord ==
    /\ \A i \in Malformed :
          /\ task[i].state # "unstarted" =>
                /\ callCount[i].JSON5parse = 1
                /\ callCount[i].fixJsonWithLlm = 1
          /\ task[i].state = "repairing" =>
                callCount[i].JSONparse = 0 /\ callCount[i].toolToCall = 0
          /\ callCount[i].JSONparse <= 1
          /\ task[i].state = "calling" =>
                callCount[i].JSONparse = 1 /\ callCount[i].toolToCall = 1
          /\ (Returned(i) /\ Has(task[i].value, "error")
                 /\ task[i].value.error \in {RepairFailed, SyntaxError}) =>
                /\ callCount[i].toolToCall = 0
                /\ callCount[i].JSONparse =
                       IF task[i].value.error = SyntaxError THEN 1 ELSE 0
                /\ Cardinality(RecordsOf(i)) = 1
                /\ \A k \in RecordsOf(i) : Has(toolLog[k].content.json, "error")
          /\ (Returned(i) /\ callCount[i].toolToCall = 0) =>
                /\ Has(task[i].value, "error")
                /\ task[i].value.error \in {RepairFailed, SyntaxError}
    /\ (epc = "resolved" /\ Malformed # {}) =>
          \A j \in 1..Len(toolCalls) :
              /\ task[j].state = "settled"
              /\ Cardinality(RecordsOf(j)) = 1
              /\ (j \notin Malformed /\ j \notin Unknown) =>
                    /\ callCount[j].toolToCall = 1
                    /\ callCount[j].fixJsonWithLlm = 0
                    /\ \/ Has(task[j].value, "result")
                       \/ task[j].value.error = ToolFailed

\* The repair request of the first tool call failed, the repaired text of the
\* second was no JSON, and the third, started after both, has its result.
C24_Witness ==
    /\ epc = "resolved"
    /\ Len(toolCalls) = 3
    /\ Malformed = {1, 2}
    /\ Has(execResult.value[1], "error")
    /\ execResult.value[1].error = RepairFailed
    /\ Has(execResult.value[2], "error")
    /\ execResult.value[2].error = SyntaxError
    /\ callCount[1].toolToCall = 0
    /\ callCount[2].toolToCall = 0
    /\ Has(execResult.value[3], "result")

-----------------------------------------------------------------------------
(* More properties of the passes *)

\* Whether every td and th of the list, at any depth, has the padding.
RECURSIVE CellsPadded(_, _)
CellsPadded(list, padding) ==
    \A i \in 1..Len(list) :
        IsObject(list[i]) =>
            /\ IsCell(list[i]) =>
                   /\ Has(list[i], "attributes")
                   /\ Has(list[i].attributes, "style")
                   /\ Has(list[i].attributes.style, "obj")
                   /\ Has(list[i].attributes.style.obj, "padding")
                   /\ list[i].attributes.style.obj.padding = padding
            /\ Has(list[i], "children") => CellsPadded(list[i].children, padding)

\* Whether the cell after has every style key the cell before had, padding
\* apart, with its value.
OtherStyleKept(cellBefore, cellAfter) ==
    Has(cellBefore, "attributes") =>
        \A property \in DOMAIN ExistingStyle(cellBefore.attributes) \ {"padding"} :
            /\ Has(cellAfter.attributes.style.obj, property)
            /\ cellAfter.attributes.style.obj[property] =
                   ExistingStyle(cellBefore.attributes)[property]

\* Whether, post being what Structural Table Repair made of the list pre,
\* every table of pre with a cellpadding stands in post without it and with
\* every td and th below it padded by its value as a length, the other style
\* keys of the cells being kept.  inRow says the lists are the children of a
\* tr, under that they stand below a table with a cellpadding.
RECURSIVE CellpaddingApplied(_, _, _, _)
RECURSIVE CellpaddingAppliedBelow(_, _, _)
CellpaddingApplied(inRow, under, pre, post) ==
    \A i \in 1..Len(pre) :
        CellpaddingAppliedBelow(under, pre[i],
                                IF inRow /\ ~IsCell(pre[i]) THEN post[i].children[1]
                                ELSE post[i])

CellpaddingAppliedBelow(under, a, b) ==
    IsObject(a) =>
        /\ (under /\ IsCell(a)) => OtherStyleKept(a, b)
        /\ (TagIs(a, "table") /\ Has(a, "attributes")
               /\ Has(a.attributes, "cellpadding")) =>
              /\ ~Has(b.attributes, "cellpadding")
              /\ Has(b, "children") =>
                     CellsPadded(b.children, addPxIfNeeded(a.attributes.cellpadding))
        /\ Has(a, "children") =>
              CellpaddingApplied(TagIs(a, "tr"),
                                 under \/ (TagIs(a, "table") /\ Has(a, "attributes")
                                              /\ Has(a.attributes, "cellpadding")),
                                 a.children,
                                 IF LacksTbody(a) THEN b.children[1].children
                                 ELSE b.children)

\* C25: after Structural Table Repair a table that had a cellpadding has it
\* no more, and every td and th below it in the repaired tree has the padding
\* of that value as a length, its other style keys being as they were.
C25_CellpaddingOnEveryCell ==
    Latest = "traverseAndProcessTableStructure" =>
        CellpaddingApplied(FALSE, FALSE, before, tree)

-----------------------------------------------------------------------------
(* Properties of the walk of Nesting Repair *)

\* The nodes of the tree the walk began with.
Original == {id \in 1..Len(heap) : ~heap[id].made}

\* How often the rules ran on a node.
TimesEvaluated(id) == Cardinality({k \in 1..Len(evaluated) : evaluated[k].node = id})

\* Whether a rule of nestingRules would match the node under the parent.
Matches(id, parent) ==
    \/ /\ parent # 0
       /\ heap[parent].tagName \in {"tr", "p", "table"}
       /\ heap[id].tagName = "form"
    \/ heap[id].tagName = "td" /\ (parent = 0 \/ heap[parent].tagName # "tr")

\* C26: during Nesting Repair every node of the tree is evaluated against the
\* rules, and the parent passed to the rules for a node is the node whose
\* children hold it at that moment, null for a node of the root list, also
\* after earlier fixes rewrote children lists.  The nodes of the tree are
\* evaluated once each; the nodes the fixes make are such that no rule
\* matches them where they stand; the tree the walk leaves is the tree of
\* traverseAndFixInvalidNesting.
C26_EveryNodeEvaluatedWithItsParent ==
    /\ \A k \in 1..Len(evaluated) : evaluated[k].containers = {evaluated[k].parent}
    /\ \A id \in Original : TimesEvaluated(id) <= 1
    /\ frames = <<>> =>
          /\ \A id \in Original : TimesEvaluated(id) = 1
          /\ \A id \in 1..Len(heap) \ Original :
                \A parent \in Containers(id, heap, rootElements) : ~Matches(id, parent)
          /\ UnfoldList(rootElements, heap) = FixInvalidNestingInList(source, JNull)

\* The walk of a tr with two forms: the second form was evaluated after the
\* fix of the first had rewritten the children of the tr.
C26_Witness ==
    /\ frames = <<>>
    /\ Len(evaluated) = 3
    /\ evaluated[1].parent = 0
    /\ heap[1].tagName = "tr"
    /\ evaluated[2].parent = 1
    /\ evaluated[3].parent = 1
    /\ heap[heap[1].children[1]].made
    /\ heap[heap[1].children[2]].made

-----------------------------------------------------------------------------
(* Properties of the last three passes *)

\* The keys of the numbered nodes of a list, in document order.
RECURSIVE Order(_)
Order(list) ==
    IF list = <<>> THEN <<>>
    ELSE (IF IsObject(Head(list)) /\ Has(Head(list), "key")
          THEN <<Head(list).key>> ELSE <<>>)
         \o (IF IsObject(Head(list)) /\ Has(Head(list), "children")
             THEN Order(Head(list).children) ELSE <<>>)
         \o Order(Tail(list))

\* The keys, in document order, of the nodes of a list that are neither
\* inside a node of a removed tag nor nodes of an unwrapped tag themselves.
RECURSIVE KeptOrder(_)
KeptOrder(list) ==
    IF list = <<>> THEN <<>>
    ELSE (IF ~IsObject(Head(list)) THEN <<>>
          ELSE IF \E tag \in {"meta", "title", "link", "script", "noscript", "style"} :
                     TagIs(Head(list), tag)
          THEN <<>>
          ELSE (IF (\E tag \in {"html", "head", "body"} : TagIs(Head(list), tag))
                   \/ ~Has(Head(list), "key")
                THEN <<>> ELSE <<Head(list).key>>)
               \o (IF Has(Head(list), "children")
                   THEN KeptOrder(Head(list).children) ELSE <<>>))
         \o KeptOrder(Tail(list))

\* C27: Structural Table Repair, Nesting Repair and Filter & Flatten neither
\* duplicate nor reorder nodes, and drop only the subtrees of removed tags and
\* the unwrapped nodes themselves: every other node that was in the tree
\* before them is in the tree after them once, in the same document order.
C27_NodesKeptInOrder ==
    (done # <<>> /\ \A k \in 1..Len(done) :
        done[k] \in {"traverseAndProcessTableStructure", "traverseAndFixInvalidNesting",
                     "processJsonElements"}) =>
        Order(tree) = IF Latest = "processJsonElements" THEN KeptOrder(source)
                      ELSE Order(source)

\* The three passes run on twelve numbered nodes among which an html and a
\* body are unwrapped and three orphan cells are wrapped in new rows and
\* tables, which carry no number.
C27_Witness ==
    /\ done = <<"traverseAndProcessTableStructure", "traverseAndFixInvalidNesting",
                "processJsonElements">>
    /\ source = Numbered(OrphanCells, 1)
    /\ Order(source) = <<1, 2, 3, 4, 5, 6, 7, 8, 9, 10, 11, 12>>
    /\ Order(tree) = <<1, 2, 3, 4, 5, 6, 7, 10, 11, 12>>
    /\ Size(tree) > 12

\* The keys of the numbered forms that are direct children of a tr of the list.
RECURSIVE RowForms(_, _)
RowForms(list, inRow) ==
    UNION {IF ~IsObject(list[i]) THEN {}
           ELSE (IF inRow /\ TagIs(list[i], "form") /\ Has(list[i], "key")
                 THEN {list[i].key} ELSE {})
                \cup (IF Has(list[i], "children")
                      THEN RowForms(list[i].children, TagIs(list[i], "tr"))
                      ELSE {}) : i \in 1..Len(list)}

\* Whether every form of the list with a key among keys is the one child of a
\* td with style.display "none" that is a child of a tr; hidden tells that the
\* list is the children of such a td.
RECURSIVE FormsHidden(_, _, _, _)
FormsHidden(list, keys, inRow, hidden) ==
    \A i \in 1..Len(list) :
        IsObject(list[i]) =>
            /\ (TagIs(list[i], "form") /\ Has(list[i], "key") /\ list[i].key \in keys)
                  => hidden
            /\ Has(list[i], "children") =>
                  FormsHidden(list[i].children, keys, TagIs(list[i], "tr"),
                              inRow /\ HiddenCell(list[i]))

\* C28: in a run of the pipeline the tree Nesting Repair is given has no form
\* that is a direct child of a tr, so its first rule matches nothing; and
\* from Structural Table Repair on, every form that was a direct child of a tr
\* is the child of a td with style.display "none" in that tr, in the output of
\* the pipeline too.
C28_RowFormsAreHiddenBeforeNestingRepair ==
    (/\ done # <<>>
     /\ done[1] \in {PassOrder[1], "traverseAndTransformObjects",
                     "traverseAndReplaceSessionGetAttribute",
                     "traverseAndProcessTableStructure"}) =>
        /\ Latest = "traverseAndFixInvalidNesting" =>
              ~HasChildUnder(before, "form", {"tr"})
        /\ (\E k \in 1..Len(done) : done[k] = "traverseAndProcessTableStructure") =>
              FormsHidden(tree, RowForms(source, FALSE), FALSE, FALSE)

\* The whole pipeline has run on a table with a form in its first row: the
\* form, numbered 3, is in a hidden td of that row in the output.
C28_Witness ==
    /\ done = PassOrder
    /\ source = Numbered(WideTable, 1)
    /\ RowForms(source, FALSE) = {3}
    /\ HiddenCell(tree[1].children[1].children[1].children[1])
    /\ tree[1].children[1].children[1].tagName = "tr"
    /\ tree[1].children[1].children[1].children[1].children[1].tagName = "form"
    /\ tree[1].children[1].children[1].children[1].children[1].key = 3

-----------------------------------------------------------------------------
(* Properties of the session history *)

\* The records of the list that carry the identifier of the i-th tool call.
RecordsIn(log, i) ==
    {k \in 1..Len(log) : log[k].role = "tool" /\ log[k].tool_call_id = toolCalls[i].id}

\* Whether the task of the i-th tool call has returned.
Finished(i) == task[i].state \in {"fulfilled", "settled"}

\* C29: each tool call of a batch appends one record to the session history,
\* with its own tool_call_id, whether it succeeds, fails or names an unknown
\* tool, and appends it at the end of the history in the step in which its
\* task returns, so that the records stand in completion order; all of them
\* are there when handleToolCalls resolves, and /chat appends the integration
\* prompt after them.
C29_OneRecordPerCallBeforeThePrompt ==
    /\ [](/\ \A k \in 1..Len(toolLog) :
                \E i \in 1..Len(toolCalls) : k \in RecordsIn(toolLog, i)
          /\ \A i \in 1..Len(toolCalls) :
                Cardinality(RecordsIn(toolLog, i)) = IF Finished(i) THEN 1 ELSE 0
          /\ epc = "resolved" =>
                \A i \in 1..Len(toolCalls) : Cardinality(RecordsIn(toolLog, i)) = 1
          /\ chat.pc \notin {"idle", "awaiting"} =>
                /\ chat.pc = "integrating"
                /\ chat.history = Append(toolLog, IntegrationPrompt)
                /\ Len(toolLog) = Len(toolCalls))
    /\ [][\A i \in 1..Len(toolCalls) :
             (~Finished(i) /\ Finished(i)') =>
                 /\ Len(toolLog') = Len(toolLog) + 1
                 /\ SubSeq(toolLog', 1, Len(toolLog)) = toolLog
                 /\ RecordsIn(toolLog', i) = {Len(toolLog')}]_vars

\* A batch of a tool call that fails, one that names an unknown tool and one
\* that succeeds: the third is started last and its record is the second of
\* three, and the prompt is the fourth record of the session.
C29_Witness ==
    /\ chat.pc = "integrating"
    /\ Len(chat.history) = 4
    /\ chat.history[4] = IntegrationPrompt
    /\ Len(toolCalls) = 3
    /\ toolCalls[2].function.name \notin availableTools
    /\ "error" \in DOMAIN execResult.value[1]
    /\ "result" \in DOMAIN execResult.value[3]
    /\ CompletionOrder = <<2, 3, 1>>

\* C30: deleting the session while handleToolCalls awaits does not make it
\* reject or lose results: the call is never rejected, and when it resolves
\* it resolves with one record per tool call.
C30_DeletionLeavesTheCallUnharmed ==
    /\ execResult.kind # "rejected"
    /\ epc = "resolved" =>
          /\ execResult.kind = "resolved"
          /\ Len(execResult.value) = Len(toolCalls)

=====
